---- MODULE Spec2Model ----
(***************************************************************************)
(* Erf-AI: REST controllers over a document store (users, datasets, AI     *)
(* model records) and the process-wide model runtime adapter (AIService).  *)
(*                                                                         *)
(* Every handler is an async function: it runs without interruption from   *)
(* one await to the next, and other requests may run at each await.  A     *)
(* handler is therefore modelled as one action per await-delimited step,   *)
(* the request's position and locals being kept in its slot.               *)
(***************************************************************************)
EXTENDS Integers, Sequences, FiniteSets, TLC

VARIABLES
    datasets,   \* Dataset collection: sequence of documents, _id = index
    dsReqs,     \* dataset requests in flight, per request slot
    users,      \* User collection: sequence of documents, _id = index
    authReqs,   \* register requests in flight, per request slot
    aiModels,   \* AIModel collection: sequence of documents, _id = index
    aiService,  \* the AIService singleton (the model runtime adapter)
    aiReqs,     \* AI requests in flight, per request slot
    predResults, \* predict: the output vectors of the runtime model, per example
    predReturn, \* predict: the object returned
    httpReq,    \* the request being routed by the API router
    httpRes     \* the response to it, with the handler that ran

dsVars == <<datasets, dsReqs>>
authVars == <<users, authReqs>>
aiVars == <<aiModels, aiService, aiReqs>>
predVars == <<predResults, predReturn>>
httpVars == <<httpReq, httpRes>>
vars == <<datasets, dsReqs, users, authReqs, aiModels, aiService, aiReqs,
          predResults, predReturn, httpReq, httpRes>>

(***************************************************************************)
(* Bounds and value sets                                                   *)
(***************************************************************************)
MaxDatasets == 2
MaxUsers == 2
MaxModels == 2
MaxInitialized == 1
MaxRecords == 1
MaxVersions == 2
MaxSteps == 1
MaxClones == 1
MaxExamples == 2

Slots == {"r1", "r2"}
DsUsers == {"U2", "U3"}
Names == {"sales", "stock"}
Usernames == {"alice", "bob"}
Emails == {"a@erf.ai"}
AiUsers == {"U1", "U2"}
EpochChoices == {1}
LoadFailures == {"none", "sequential", "compile"}

None == "undefined"
NoId == 0
Visibilities == {"private", "public"}

(***************************************************************************)
(* Dataset controller                                                      *)
(***************************************************************************)
\* statistics and metadata of a new document: every field undefined
NoStatistics == [summary |-> None, distributions |-> None, correlations |-> None]
NoMetadata ==
    [size |-> None, recordCount |-> None, features |-> None,
     dimensions |-> None, dataTypes |-> None]

DsIdle ==
    [op |-> "idle", pc |-> "done", user |-> None, name |-> None,
     visibility |-> None, id |-> NoId, loadedName |-> None,
     loadedVisibility |-> None, status |-> 0, data |-> NoId,
     versionNumber |-> 0, loadedVersions |-> 0, format |-> None, tags |-> {},
     accessLevel |-> None, list |-> {}, body |-> <<>>, loaded |-> <<>>]

DsFree(s) == dsReqs[s].pc = "done"

\* the response is sent: the request's locals are gone, its status remains
DsDone(r, status) == [DsIdle EXCEPT !.op = r.op, !.status = status]

DsCreating == Cardinality({s \in Slots : dsReqs[s].op = "createDataset" /\ dsReqs[s].pc = "create"})

FindOneByNameOnly(name, creator) ==
    \E i \in 1..Len(datasets) : datasets[i].name = name

\* Dataset.findOne({ name, creator })
FindOneByNameCreator(name, creator) ==
    \E i \in 1..Len(datasets) :
        datasets[i].name = name /\ datasets[i].creator = creator

\* Dataset.findOne({ name, creator, _id: { $ne: id } })
FindOneByNameCreatorNotId(name, creator, id) ==
    \E i \in 1..Len(datasets) :
        i # id /\ datasets[i].name = name /\ datasets[i].creator = creator

\* createDataset up to "await Dataset.findOne": the duplicate-name check
CreateDatasetFindOne(s, user, name, format, vis, tags) ==
    /\ DsFree(s)
    /\ FindOneByNameCreator(name, user) \/ Len(datasets) + DsCreating < MaxDatasets
    /\ dsReqs' = [dsReqs EXCEPT ![s] =
          IF FindOneByNameCreator(name, user)
          THEN DsDone([DsIdle EXCEPT !.op = "createDataset"], 400)
          ELSE [DsIdle EXCEPT !.op = "createDataset", !.pc = "create",
                              !.user = user, !.name = name, !.visibility = vis,
                              !.format = format, !.tags = tags]]
    /\ UNCHANGED datasets

\* createDataset from "await Dataset.create" to the 201 response; without a
\* name in the body, name.replace in the arguments of Dataset.create throws
\* before the call, and the catch answers 500
CreateDatasetCreate(s) ==
    /\ dsReqs[s].op = "createDataset" /\ dsReqs[s].pc = "create"
    /\ IF dsReqs[s].name = None
       THEN /\ dsReqs' = [dsReqs EXCEPT ![s] = DsDone(@, 500)]
            /\ UNCHANGED datasets
       ELSE /\ datasets' = Append(datasets,
                  [name |-> dsReqs[s].name,
                   creator |-> dsReqs[s].user,
                   visibility |-> IF dsReqs[s].visibility = None THEN "private"
                                  ELSE dsReqs[s].visibility,
                   format |-> dsReqs[s].format,
                   tags |-> dsReqs[s].tags,
                   sharedWith |-> <<>>,
                   versions |-> <<>>,
                   preprocessing |-> <<>>,
                   statistics |-> NoStatistics,
                   metadata |-> NoMetadata,
                   isActive |-> TRUE])
            /\ dsReqs' = [dsReqs EXCEPT ![s] = DsDone(@, 201)]

\* the synchronous part of updateDataset after "await Dataset.findById"
UpdateDatasetLoaded(r, user, id, name, vis) ==
    IF id > Len(datasets)
    THEN DsDone(r, 404)
    ELSE IF datasets[id].creator # user
    THEN DsDone(r, 403)
    ELSE [r EXCEPT !.pc = IF name # None /\ name # datasets[id].name
                          THEN "findOne" ELSE "save",
                   !.loadedName = datasets[id].name,
                   !.loadedVisibility = datasets[id].visibility]

UpdateDatasetFindById(s, user, id, name, vis) ==
    /\ DsFree(s)
    /\ dsReqs' = [dsReqs EXCEPT ![s] =
          UpdateDatasetLoaded(
              [DsIdle EXCEPT !.op = "updateDataset", !.user = user, !.id = id,
                             !.name = name, !.visibility = vis],
              user, id, name, vis)]
    /\ UNCHANGED datasets

\* updateDataset: the name-conflict query
UpdateDatasetFindOne(s) ==
    /\ dsReqs[s].op = "updateDataset" /\ dsReqs[s].pc = "findOne"
    /\ dsReqs' = [dsReqs EXCEPT ![s] =
          IF FindOneByNameCreatorNotId(dsReqs[s].name, dsReqs[s].user, dsReqs[s].id)
          THEN DsDone(@, 400)
          ELSE [@ EXCEPT !.pc = "save"]]
    /\ UNCHANGED datasets

\* dataset.save() of updateDataset: the document's modified paths are written
UpdatedDataset(d, r) ==
    LET newName == IF r.name # None THEN r.name ELSE r.loadedName
        newVis  == IF r.visibility # None THEN r.visibility ELSE r.loadedVisibility
    IN [d EXCEPT !.name = IF newName # r.loadedName THEN newName ELSE @,
                 !.visibility = IF newVis # r.loadedVisibility THEN newVis ELSE @]

UpdateDatasetSave(s) ==
    /\ dsReqs[s].op = "updateDataset" /\ dsReqs[s].pc = "save"
    /\ datasets' = [datasets EXCEPT ![dsReqs[s].id] = UpdatedDataset(@, dsReqs[s])]
    /\ dsReqs' = [dsReqs EXCEPT ![s] = DsDone(@, 200)]

\* the synchronous part of deleteDataset after "await Dataset.findById"
DeleteDatasetLoaded(r, user, id) ==
    IF id > Len(datasets)
    THEN DsDone(r, 404)
    ELSE IF datasets[id].creator # user
    THEN DsDone(r, 403)
    ELSE [r EXCEPT !.pc = "save"]

DeleteDatasetFindById(s, user, id) ==
    /\ DsFree(s)
    /\ dsReqs' = [dsReqs EXCEPT ![s] =
          DeleteDatasetLoaded(
              [DsIdle EXCEPT !.op = "deleteDataset", !.user = user, !.id = id],
              user, id)]
    /\ UNCHANGED datasets

\* deleteDataset: soft delete and save
DeleteDatasetSave(s) ==
    /\ dsReqs[s].op = "deleteDataset" /\ dsReqs[s].pc = "save"
    /\ datasets' = [datasets EXCEPT ![dsReqs[s].id].isActive = FALSE]
    /\ dsReqs' = [dsReqs EXCEPT ![s] = DsDone(@, 200)]

\* user ids a share request can name: U9 is the id of no account
ShareTargets == {"U3", "U9"}

\* populate of a user reference: the referenced document, or null when no
\* account has the id
Populate(ref) == IF ref \in DsUsers THEN ref ELSE None

\* shareDataset: Dataset.findById and the creator check
ShareDatasetFindById(s, user, id, userId, accessLevel) ==
    /\ DsFree(s)
    /\ dsReqs' = [dsReqs EXCEPT ![s] =
          LET r == [DsIdle EXCEPT !.op = "shareDataset"] IN
          IF id > Len(datasets) THEN DsDone(r, 404)
          ELSE IF datasets[id].creator # user THEN DsDone(r, 403)
          ELSE [r EXCEPT !.pc = "shareWith", !.user = user, !.id = id,
                         !.name = userId, !.accessLevel = accessLevel]]
    /\ UNCHANGED datasets

\* dataset.shareWith(userId, accessLevel): the entry of userId gets the
\* accessLevel if there is one, else an entry is appended
ShareWith(d, userId, accessLevel) ==
    IF \E k \in 1..Len(d.sharedWith) : d.sharedWith[k].user = userId
    THEN [d EXCEPT !.sharedWith =
             [k \in 1..Len(@) |-> IF @[k].user = userId
                                  THEN [@[k] EXCEPT !.accessLevel = accessLevel]
                                  ELSE @[k]]]
    ELSE [d EXCEPT !.sharedWith = Append(@, [user |-> userId, accessLevel |-> accessLevel])]

\* shareDataset: await dataset.shareWith and the 200 response
ShareDatasetShareWith(s) ==
    /\ dsReqs[s].op = "shareDataset" /\ dsReqs[s].pc = "shareWith"
    /\ datasets' = [datasets EXCEPT ![dsReqs[s].id] = ShareWith(@, dsReqs[s].name, dsReqs[s].accessLevel)]
    /\ dsReqs' = [dsReqs EXCEPT ![s] = DsDone(@, 200)]

\* Math.max(...dataset.versions.map(v => v.versionNumber)) for a list that is
\* not empty
RECURSIVE MaxVersionNumber(_)
MaxVersionNumber(versions) ==
    IF Len(versions) = 1 THEN versions[1].versionNumber
    ELSE LET rest == MaxVersionNumber(Tail(versions)) IN
         IF versions[1].versionNumber > rest THEN versions[1].versionNumber ELSE rest

\* addDatasetVersion's versionNumber, the n of the file name <base>_v<n><ext>
NextVersionNumber(versions) ==
    IF Len(versions) > 0 THEN MaxVersionNumber(versions) + 1 ELSE 1

\* the addDatasetVersion requests for dataset id that are between their
\* lookup and their save
DsAddingVersion(id) ==
    Cardinality({s \in Slots : dsReqs[s].op = "addDatasetVersion" /\ dsReqs[s].pc = "addVersion"
                                /\ dsReqs[s].id = id})

\* addDatasetVersion: Dataset.findById, the creator check and the file name
AddDatasetVersionFindById(s, user, id) ==
    /\ DsFree(s)
    /\ id <= Len(datasets) => Len(datasets[id].versions) + DsAddingVersion(id) < MaxVersions
    /\ dsReqs' = [dsReqs EXCEPT ![s] =
          LET r == [DsIdle EXCEPT !.op = "addDatasetVersion"] IN
          IF id > Len(datasets) THEN DsDone(r, 404)
          ELSE IF datasets[id].creator # user THEN DsDone(r, 403)
          ELSE [r EXCEPT !.pc = "addVersion", !.user = user, !.id = id,
                         !.versionNumber = NextVersionNumber(datasets[id].versions),
                         !.loadedVersions = Len(datasets[id].versions)]]
    /\ UNCHANGED datasets

\* dataset.addVersion(versionData): the version is appended to the stored
\* list, numbered after the versions of the document as it was loaded
AddVersion(d, loadedVersions, fileName) ==
    [d EXCEPT !.versions =
        Append(@, [versionNumber |-> loadedVersions + 1, fileName |-> fileName])]

\* addDatasetVersion: await dataset.addVersion and the 200 response
AddDatasetVersionAddVersion(s) ==
    /\ dsReqs[s].op = "addDatasetVersion" /\ dsReqs[s].pc = "addVersion"
    /\ datasets' = [datasets EXCEPT ![dsReqs[s].id] =
          AddVersion(@, dsReqs[s].loadedVersions, dsReqs[s].versionNumber)]
    /\ dsReqs' = [dsReqs EXCEPT ![s] = DsDone(@, 200)]

RECURSIVE SharedWithSome(_, _)
\* dataset.sharedWith.some(share => share.user._id.toString() === user):
\* "true", "false", or "throw" when an entry's populated user is null before
\* any entry matches
SharedWithSome(shares, user) ==
    IF Len(shares) = 0 THEN "false"
    ELSE IF Populate(shares[1].user) = None THEN "throw"
    ELSE IF Populate(shares[1].user) = user THEN "true"
    ELSE SharedWithSome(Tail(shares), user)

\* getDatasetById: hasAccess, "throw" when its evaluation throws
HasAccess(d, user) ==
    IF Populate(d.creator) = None THEN "throw"
    ELSE IF Populate(d.creator) = user THEN "true"
    ELSE IF d.visibility = "public" THEN "true"
    ELSE SharedWithSome(d.sharedWith, user)

\* getDatasetById: the whole handler (one await, the populated findById)
GetDatasetById(s, user, id) ==
    /\ DsFree(s)
    /\ dsReqs' = [dsReqs EXCEPT ![s] =
          LET r == [DsIdle EXCEPT !.op = "getDatasetById"] IN
          IF id > Len(datasets) THEN DsDone(r, 404)
          ELSE IF HasAccess(datasets[id], user) = "throw" THEN DsDone(r, 500)
          ELSE IF HasAccess(datasets[id], user) = "false" THEN DsDone(r, 403)
          ELSE [DsDone(r, 200) EXCEPT !.data = id]]
    /\ UNCHANGED datasets

\* addPreprocessingStep up to "await dataset.addPreprocessingStep": the body
\* is destructured, then Dataset.findById and the creator check
AddPreprocessingStepFindById(s, user, id, name) ==
    /\ DsFree(s)
    /\ id <= Len(datasets) =>
          Len(datasets[id].preprocessing)
             + Cardinality({q \in Slots : dsReqs[q].op = "addPreprocessingStep"
                                          /\ dsReqs[q].pc = "addStep"
                                          /\ dsReqs[q].id = id}) < MaxSteps
    /\ dsReqs' = [dsReqs EXCEPT ![s] =
          LET r == [DsIdle EXCEPT !.op = "addPreprocessingStep"] IN
          IF id > Len(datasets) THEN DsDone(r, 404)
          ELSE IF datasets[id].creator # user THEN DsDone(r, 403)
          ELSE [r EXCEPT !.pc = "addStep", !.user = user, !.id = id, !.name = name]]
    /\ UNCHANGED datasets

\* dataset.addPreprocessingStep(step): the step is appended and saved
AddPreprocessingStepTo(d, step) ==
    [d EXCEPT !.preprocessing = Append(@, step)]

\* addPreprocessingStep from the await to the response; a step without a
\* name is stored or is refused by the schema, and the catch answers 500
AddPreprocessingStepAdd(s, accepted) ==
    /\ dsReqs[s].op = "addPreprocessingStep" /\ dsReqs[s].pc = "addStep"
    /\ IF dsReqs[s].name # None \/ accepted
       THEN /\ datasets' = [datasets EXCEPT ![dsReqs[s].id] =
                  AddPreprocessingStepTo(@, [name |-> dsReqs[s].name])]
            /\ dsReqs' = [dsReqs EXCEPT ![s] = DsDone(@, 200)]
       ELSE /\ dsReqs' = [dsReqs EXCEPT ![s] = DsDone(@, 500)]
            /\ UNCHANGED datasets

\* updateStatistics, updateMetadata: hasEditAccess
HasEditAccess(d, user) ==
    \/ d.creator = user
    \/ \E k \in 1..Len(d.sharedWith) :
          d.sharedWith[k].user = user /\ d.sharedWith[k].accessLevel \in {"edit", "admin"}

\* values of a body field that are falsy in JavaScript: undefined, null, 0
Falsy(v) == v \in {None, "null", "0"}

\* a || b
Or(a, b) == IF Falsy(a) THEN b ELSE a

\* a !== undefined ? a : b
IfDefined(a, b) == IF a # None THEN a ELSE b

\* updateStatistics: the object assigned to dataset.statistics
NewStatistics(body, statistics) ==
    [summary |-> Or(body.summary, statistics.summary),
     distributions |-> Or(body.distributions, statistics.distributions),
     correlations |-> Or(body.correlations, statistics.correlations)]

\* updateMetadata: the object assigned to dataset.metadata
NewMetadata(body, metadata) ==
    [size |-> IfDefined(body.size, metadata.size),
     recordCount |-> IfDefined(body.recordCount, metadata.recordCount),
     features |-> Or(body.features, metadata.features),
     dimensions |-> Or(body.dimensions, metadata.dimensions),
     dataTypes |-> Or(body.dataTypes, metadata.dataTypes)]

\* updateStatistics up to "await dataset.save()": lookup, access check and the
\* assignment to the loaded document
UpdateStatisticsFindById(s, user, id, body) ==
    /\ DsFree(s)
    /\ dsReqs' = [dsReqs EXCEPT ![s] =
          LET r == [DsIdle EXCEPT !.op = "updateStatistics"] IN
          IF id > Len(datasets) THEN DsDone(r, 404)
          ELSE IF ~HasEditAccess(datasets[id], user) THEN DsDone(r, 403)
          ELSE [r EXCEPT !.pc = "save", !.user = user, !.id = id, !.body = body,
                         !.loaded = NewStatistics(body, datasets[id].statistics)]]
    /\ UNCHANGED datasets

\* updateStatistics: the save writes the assigned object
UpdateStatisticsSave(s) ==
    /\ dsReqs[s].op = "updateStatistics" /\ dsReqs[s].pc = "save"
    /\ datasets' = [datasets EXCEPT ![dsReqs[s].id].statistics = dsReqs[s].loaded]
    /\ dsReqs' = [dsReqs EXCEPT ![s] = DsDone(@, 200)]

\* updateMetadata up to "await dataset.save()"
UpdateMetadataFindById(s, user, id, body) ==
    /\ DsFree(s)
    /\ dsReqs' = [dsReqs EXCEPT ![s] =
          LET r == [DsIdle EXCEPT !.op = "updateMetadata"] IN
          IF id > Len(datasets) THEN DsDone(r, 404)
          ELSE IF ~HasEditAccess(datasets[id], user) THEN DsDone(r, 403)
          ELSE [r EXCEPT !.pc = "save", !.user = user, !.id = id, !.body = body,
                         !.loaded = NewMetadata(body, datasets[id].metadata)]]
    /\ UNCHANGED datasets

\* updateMetadata: the save writes the assigned object
UpdateMetadataSave(s) ==
    /\ dsReqs[s].op = "updateMetadata" /\ dsReqs[s].pc = "save"
    /\ datasets' = [datasets EXCEPT ![dsReqs[s].id].metadata = dsReqs[s].loaded]
    /\ dsReqs' = [dsReqs EXCEPT ![s] = DsDone(@, 200)]

\* getDatasets: query.$or without and with req.query.visibility; the clause
\* { 'sharedWith.user': me } compares the stored ids
QueryOrPublicAlways(d, user, visibility) ==
    \/ d.creator = user /\ (visibility = None \/ d.visibility = visibility)
    \/ d.visibility = "public"
    \/ \E k \in 1..Len(d.sharedWith) : d.sharedWith[k].user = user

QueryOr(d, user, visibility) ==
    IF visibility = None
    THEN \/ d.creator = user
         \/ d.visibility = "public"
         \/ \E k \in 1..Len(d.sharedWith) : d.sharedWith[k].user = user
    ELSE \/ d.creator = user /\ d.visibility = visibility
         \/ visibility # "private" /\ d.visibility = "public"
         \/ \E k \in 1..Len(d.sharedWith) : d.sharedWith[k].user = user

\* getDatasets: the other keys of the query
QueryKeysAnyActive(d, format, tag) ==
    /\ format # None => d.format = format
    /\ tag # None => tag \in d.tags

QueryKeys(d, format, tag) ==
    /\ d.isActive = TRUE
    /\ format # None => d.format = format
    /\ tag # None => tag \in d.tags

\* Dataset.find(query) on the first page with the default limit: the ids of
\* the documents that match
Find(user, format, tag, visibility) ==
    {i \in 1..Len(datasets) :
        QueryOr(datasets[i], user, visibility) /\ QueryKeys(datasets[i], format, tag)}

\* getDatasets up to "await Dataset.find(query)...populate": the page is read
GetDatasetsFind(s, user, format, tag, visibility) ==
    /\ DsFree(s)
    /\ dsReqs' = [dsReqs EXCEPT ![s] =
          [DsIdle EXCEPT !.op = "getDatasets", !.pc = "countDocuments",
                         !.user = user, !.visibility = visibility,
                         !.list = Find(user, format, tag, visibility)]]
    /\ UNCHANGED datasets

\* getDatasets from "await Dataset.countDocuments(query)" to the 200 response,
\* which carries the page read before
GetDatasetsCountDocuments(s) ==
    /\ dsReqs[s].op = "getDatasets" /\ dsReqs[s].pc = "countDocuments"
    /\ dsReqs' = [dsReqs EXCEPT ![s] = DsDone(@, 200)]
    /\ UNCHANGED datasets

DsStart ==
    /\ datasets = <<>>
    /\ dsReqs = [s \in Slots |-> DsIdle]

\* no dataset request is ever made
DsOff ==
    /\ datasets = <<>>
    /\ dsReqs = <<>>

(***************************************************************************)
(* Auth controller: register                                               *)
(***************************************************************************)
AuthIdle ==
    [op |-> "idle", pc |-> "done", username |-> None, email |-> None,
     role |-> None, status |-> 0, id |-> NoId, isActive |-> FALSE,
     loaded |-> FALSE]

AuthFree(s) == authReqs[s].pc = "done"

AuthDone(r, status) == [AuthIdle EXCEPT !.op = r.op, !.status = status]

AuthSaving == Cardinality({s \in Slots : authReqs[s].op = "register" /\ authReqs[s].pc # "done"})

\* User.findByUsernameOrEmail(x)
FindByUsernameOrEmail(x) ==
    \E i \in 1..Len(users) : users[i].username = x \/ users[i].email = x

\* User.countDocuments()
CountDocuments == Len(users)

\* the role register puts into userData after the count: admin for the first
\* user, otherwise left to the schema default
RegisterRole(userCount) == IF userCount = 0 THEN "admin" ELSE None

\* register: validation and the first findByUsernameOrEmail(username)
RegisterFindUsername(s, username, hasPassword, email) ==
    /\ AuthFree(s)
    /\ Len(users) + AuthSaving < MaxUsers
    /\ authReqs' = [authReqs EXCEPT ![s] =
          LET r == [AuthIdle EXCEPT !.op = "register"] IN
          IF username = None \/ ~hasPassword THEN AuthDone(r, 400)
          ELSE IF FindByUsernameOrEmail(username) THEN AuthDone(r, 400)
          ELSE [r EXCEPT !.username = username, !.email = email,
                         !.pc = IF email # None THEN "findEmail" ELSE "count"]]
    /\ UNCHANGED users

\* register: the second findByUsernameOrEmail(email), made when email is given
RegisterFindEmail(s) ==
    /\ authReqs[s].op = "register" /\ authReqs[s].pc = "findEmail"
    /\ authReqs' = [authReqs EXCEPT ![s] =
          IF FindByUsernameOrEmail(authReqs[s].email)
          THEN AuthDone(@, 400)
          ELSE [@ EXCEPT !.pc = "count"]]
    /\ UNCHANGED users

\* register: User.countDocuments() and the choice of the role
RegisterCount(s) ==
    /\ authReqs[s].op = "register" /\ authReqs[s].pc = "count"
    /\ authReqs' = [authReqs EXCEPT ![s].role = RegisterRole(CountDocuments),
                                    ![s].pc = "save"]
    /\ UNCHANGED users

\* register: user.save() and the 201 response; role defaults to user
RegisterSave(s) ==
    /\ authReqs[s].op = "register" /\ authReqs[s].pc = "save"
    /\ users' = Append(users,
          [username |-> authReqs[s].username,
           email |-> authReqs[s].email,
           role |-> IF authReqs[s].role = None THEN "user" ELSE authReqs[s].role,
           isActive |-> TRUE])
    /\ authReqs' = [authReqs EXCEPT ![s] = AuthDone(@, 201)]

\* toggleUserStatus up to "await user.save()": User.findById and the
\* assignment of isActive to the loaded document
ToggleUserStatusFindById(s, userId, isActive) ==
    /\ AuthFree(s)
    /\ authReqs' = [authReqs EXCEPT ![s] =
          LET r == [AuthIdle EXCEPT !.op = "toggleUserStatus"] IN
          IF userId \notin 1..Len(users) THEN AuthDone(r, 404)
          ELSE [r EXCEPT !.pc = "save", !.id = userId, !.isActive = isActive,
                         !.loaded = users[userId].isActive]]
    /\ UNCHANGED users

\* toggleUserStatus: the save writes isActive if the assignment changed it;
\* the 200 response
ToggleUserStatusSave(s) ==
    /\ authReqs[s].op = "toggleUserStatus" /\ authReqs[s].pc = "save"
    /\ users' = [users EXCEPT ![authReqs[s].id].isActive =
          IF authReqs[s].isActive # authReqs[s].loaded THEN authReqs[s].isActive ELSE @]
    /\ authReqs' = [authReqs EXCEPT ![s] = AuthDone(@, 200)]

\* the account login looks up: the index of the user with that username
FindUserByUsername(username) ==
    IF \E i \in 1..Len(users) : users[i].username = username
    THEN CHOOSE i \in 1..Len(users) : users[i].username = username
    ELSE NoId

\* login: the check "if (!user.isActive)"
LoginActive(user) == user.isActive

\* login up to "await user.comparePassword": validation, the lookup and the
\* isActive check
LoginFindByUsernameOrEmail(s, username, hasPassword) ==
    /\ AuthFree(s)
    /\ authReqs' = [authReqs EXCEPT ![s] =
          LET r == [AuthIdle EXCEPT !.op = "login"] IN
          IF username = None \/ ~hasPassword THEN AuthDone(r, 400)
          ELSE IF FindUserByUsername(username) = NoId THEN AuthDone(r, 401)
          ELSE IF ~LoginActive(users[FindUserByUsername(username)]) THEN AuthDone(r, 401)
          ELSE [r EXCEPT !.pc = "comparePassword", !.id = FindUserByUsername(username)]]
    /\ UNCHANGED users

\* login: the password is compared
LoginComparePassword(s, isMatch) ==
    /\ authReqs[s].op = "login" /\ authReqs[s].pc = "comparePassword"
    /\ authReqs' = [authReqs EXCEPT ![s] =
          IF isMatch THEN [@ EXCEPT !.pc = "save"] ELSE AuthDone(@, 401)]
    /\ UNCHANGED users

\* login: the save writes lastLogin only; the token is issued with the 200
LoginSave(s) ==
    /\ authReqs[s].op = "login" /\ authReqs[s].pc = "save"
    /\ authReqs' = [authReqs EXCEPT ![s] = [AuthDone(@, 200) EXCEPT !.id = authReqs[s].id]]
    /\ UNCHANGED users

AuthStart ==
    /\ users = <<>>
    /\ authReqs = [s \in Slots |-> AuthIdle]

\* no register request is ever made
AuthOff ==
    /\ users = <<>>
    /\ authReqs = <<>>

(***************************************************************************)
(* AIService: the model runtime adapter                                    *)
(***************************************************************************)
\* this.model = null
NoModel == [live |-> FALSE, layers |-> <<>>, compiled |-> FALSE, optimizer |-> None]

\* a key that an object does not have
Absent == "absent"

\* {} as a hyperparameters object
EmptyObject == [optimizer |-> Absent, learningRate |-> Absent]

\* this.hyperparameters = null
NoHyperparameters == [null |-> TRUE, keys |-> EmptyObject]

\* this.modelArchitecture = null
NoArchitecture == [null |-> TRUE, layers |-> <<>>, inputShape |-> None]

\* "this.hyperparameters || {}" and "modelConfig.hyperparameters || {}"
OrEmpty(hp) == IF hp.null THEN EmptyObject ELSE hp.keys

\* model.compile({optimizer: hp.optimizer || "adam", ...})
Compile(model, hp) ==
    [model EXCEPT !.compiled = TRUE,
                  !.optimizer = IF hp.optimizer # Absent THEN hp.optimizer ELSE "adam"]

\* constructor; installedFor is a history field, not a field of the class:
\* the record whose initializeModel request built the model now in this.model
NewAIService ==
    [model |-> NoModel, transferBaseModel |-> NoModel,
     modelArchitecture |-> NoArchitecture, hyperparameters |-> NoHyperparameters,
     isTransferLearning |-> FALSE, frozenLayers |-> <<>>,
     installedFor |-> NoId]

\* the fallback model of loadModel: dense 100, dense 50, dense 1
DefaultLayers ==
    <<[type |-> "dense", units |-> 100], [type |-> "dense", units |-> 50],
      [type |-> "dense", units |-> 1]>>

\* loadModel() called without arguments, as initializeModel calls it.  fail
\* names the library call that throws ("none": no call throws): tf.sequential,
\* the first model.add, or model.compile.  The result is loadModel's boolean.
LoadDefaultModel(svc, fail) ==
    LET reset == [svc EXCEPT !.isTransferLearning = FALSE, !.frozenLayers = <<>>]
    IN CASE fail = "sequential" -> [svc |-> reset, ok |-> FALSE]
         [] fail = "add" ->
              [svc |-> [reset EXCEPT !.model = [live |-> TRUE, layers |-> <<>>, compiled |-> FALSE, optimizer |-> None]],
               ok |-> FALSE]
         [] fail = "compile" ->
              [svc |-> [reset EXCEPT !.model = [live |-> TRUE, layers |-> DefaultLayers, compiled |-> FALSE, optimizer |-> None]],
               ok |-> FALSE]
         [] OTHER ->
              [svc |-> [reset EXCEPT !.model = [live |-> TRUE, layers |-> DefaultLayers, compiled |-> TRUE, optimizer |-> "adam"]],
               ok |-> TRUE]

\* trainModel's default for epochs
DefaultEpochs == 10

\* epochs absent from the request body
NoEpochs == 0

\* trainModel up to "await this.model.fit": reading this.model.optimizer
\* throws when there is no model; the model is compiled if it was not;
\* tf.tensor2d throws on data it cannot convert
ServiceTrainStart(svc, tensorsOk) ==
    IF svc.model = NoModel
    THEN [svc |-> svc, threw |-> TRUE]
    ELSE [svc |-> IF svc.model.compiled THEN svc
                  ELSE [svc EXCEPT !.model = Compile(@, OrEmpty(svc.hyperparameters))],
          threw |-> ~tensorsOk]

\* the History that model.fit resolves to: epoch lists the indices of the
\* epochs run, 0 .. epochs-1
FitResult(epochs) ==
    [epoch |-> [i \in 1..(IF epochs = NoEpochs THEN DefaultEpochs ELSE epochs) |-> i - 1]]

ServicePredictUnchecked(svc, libOk) == ~libOk

\* predict: throws without a model, and when the library throws
ServicePredictThrows(svc, libOk) == svc.model = NoModel \/ ~libOk

\* saveModel: false without a model and when model.save throws
ServiceSaveModel(svc, libOk) == svc.model # NoModel /\ libOk

\* a catch that throws again what it caught
CatchRethrow(outcome) == outcome

\* the catch of loadModel: whatever is thrown inside becomes "return false"
Catch(outcome) == IF outcome = "throw" THEN "false" ELSE outcome

\* the layer types createModelFromArchitecture has a case for
SupportedTypes ==
    {"dense", "conv2d", "maxPooling2d", "flatten", "dropout", "lstm", "gru",
     "batchNormalization"}

\* the forEach of createModelFromArchitecture from entry index on (index
\* counts from 0 as in the source): layerConfig gets the architecture's
\* inputShape for index 0 only, and an entry of unsupported type adds nothing
RECURSIVE AddArchitectureLayers(_, _, _, _)
AddArchitectureLayers(layers, inputShape, index, built) ==
    IF index >= Len(layers) THEN built
    ELSE LET layer == layers[index + 1]
             layerConfig ==
                 IF index = 0 /\ inputShape # None THEN inputShape
                 ELSE layer.inputShape
         IN AddArchitectureLayers(layers, inputShape, index + 1,
                IF layer.type \in SupportedTypes
                THEN Append(built, [type |-> layer.type, inputShape |-> layerConfig,
                                    trainable |-> TRUE])
                ELSE built)

\* createModelFromArchitecture: builds this.model from this.modelArchitecture
\* and compiles it with this.hyperparameters; what a library call throws is
\* thrown again
CreateModelFromArchitecture(svc, fail) ==
    LET built == [live |-> TRUE,
                  layers |-> AddArchitectureLayers(svc.modelArchitecture.layers,
                                 svc.modelArchitecture.inputShape, 0, <<>>),
                  compiled |-> FALSE, optimizer |-> None]
    IN CASE fail = "sequential" -> [svc |-> svc, outcome |-> "throw"]
         [] fail = "compile" -> [svc |-> [svc EXCEPT !.model = built], outcome |-> "throw"]
         [] OTHER ->
              [svc |-> [svc EXCEPT !.model = Compile(built, OrEmpty(svc.hyperparameters))],
               outcome |-> "true"]

\* the model files tf.loadLayersModel can read: the layers of each
StoredModels ==
    [base |-> <<[className |-> "Dense", name |-> "dense_1"],
                [className |-> "Dense", name |-> "dense_2"],
                [className |-> "Dense", name |-> "dense_3"]>>,
     norm |-> <<[className |-> "Dense", name |-> "dense_1"],
                [className |-> "BatchNormalization", name |-> "batch_normalization_1"],
                [className |-> "Dense", name |-> "dense_2"]>>]

\* what tf.loadLayersModel(path) resolves to
LoadLayersModel(path) ==
    [live |-> TRUE, layers |-> StoredModels[path], compiled |-> FALSE, optimizer |-> None]

\* layer.getClassName().toLowerCase()
ToLowerCase(className) ==
    CASE className = "Dense" -> "dense"
      [] className = "BatchNormalization" -> "batchnormalization"
      [] OTHER -> className

\* the layer factories of tf.layers
TfLayers == SupportedTypes

\* freezeBaseLayers = true by default; "if (freezeBaseLayers)"
Freeze(freezeBaseLayers) == freezeBaseLayers # "false"

\* "if (!outputLayers || outputLayers.length === 0)" of setupTransferLearning
OutputLayersOrLast(outputLayers, baseModelLayers) ==
    IF Len(outputLayers) = 0 THEN <<Len(baseModelLayers) - 1>> ELSE outputLayers

Includes(array, x) == \E k \in 1..Len(array) : array[k] = x

\* the forEach of setupTransferLearning from layer index on (index counts
\* from 0): a layer listed in outputLayers is skipped, any other is built again
\* by the factory named by its lower-cased class name, added to the model and,
\* if asked, frozen and its index pushed on frozenLayers; a missing factory
\* throws and ends the loop
RECURSIVE AddBaseLayers(_, _, _, _, _)
AddBaseLayers(baseModelLayers, outputLayers, freezeBaseLayers, index, acc) ==
    IF index >= Len(baseModelLayers) THEN acc
    ELSE LET layer == baseModelLayers[index + 1] IN
         IF Includes(outputLayers, index)
         THEN AddBaseLayers(baseModelLayers, outputLayers, freezeBaseLayers, index + 1, acc)
         ELSE IF ToLowerCase(layer.className) \notin TfLayers
         THEN [acc EXCEPT !.threw = TRUE]
         ELSE AddBaseLayers(baseModelLayers, outputLayers, freezeBaseLayers, index + 1,
                 [layers |-> Append(acc.layers,
                      [type |-> ToLowerCase(layer.className), name |-> layer.name,
                       trainable |-> ~Freeze(freezeBaseLayers)]),
                  frozenLayers |-> IF Freeze(freezeBaseLayers)
                                   THEN Append(acc.frozenLayers, index)
                                   ELSE acc.frozenLayers,
                  threw |-> FALSE])

\* setupTransferLearning once tf.loadLayersModel has resolved to base
SetupTransferLearningLoaded(svc, base, freezeBaseLayers, outputLayers, fail) ==
    LET loaded == [svc EXCEPT !.transferBaseModel = base, !.isTransferLearning = TRUE]
        added == AddBaseLayers(base.layers, OutputLayersOrLast(outputLayers, base.layers),
                     freezeBaseLayers, 0,
                     [layers |-> <<>>, frozenLayers |-> svc.frozenLayers, threw |-> FALSE])
        after == [loaded EXCEPT
                    !.model = [live |-> TRUE, layers |-> added.layers,
                               compiled |-> FALSE, optimizer |-> None],
                    !.frozenLayers = added.frozenLayers]
    IN IF fail = "sequential" THEN [svc |-> loaded, outcome |-> "throw"]
       ELSE [svc |-> after, outcome |-> IF added.threw THEN "throw" ELSE "true"]

\* the models directory
MODELS_DIR == "MODELS_DIR/"

\* the paths given to saveModel: the text before the first "//" and the rest
SavePaths ==
    {[scheme |-> "", rest |-> "my_model"], [scheme |-> "file://", rest |-> "/tmp/my_model"],
     [scheme |-> "https://", rest |-> "host/my_model"]}

\* path.startsWith(prefix)
StartsWith(path, prefix) == path.scheme = prefix

\* saveModel from its start to "await this.model.save(path, ...)": without a
\* model it throws; for a path with none of the three prefixes it evaluates
\* path.join(MODELS_DIR, cleanPath), where path is the parameter, a string,
\* and not the path module: a string has no join, so the call throws; any
\* other path is handed on as it is
SaveModelPath(svc, path) ==
    IF svc.model = NoModel THEN [threw |-> TRUE, path |-> path]
    ELSE IF /\ ~StartsWith(path, "file://")
            /\ ~StartsWith(path, "http://")
            /\ ~StartsWith(path, "https://")
    THEN [threw |-> TRUE, path |-> path]
    ELSE [threw |-> FALSE, path |-> path]

\* a shallow merge in which the keys already present win
SpreadKeepOld(a, b) == [k \in DOMAIN a |-> IF a[k] # Absent THEN a[k] ELSE b[k]]

\* the shallow merge {...a, ...b}: a key of b takes b's value
Spread(a, b) == [k \in DOMAIN a |-> IF b[k] # Absent THEN b[k] ELSE a[k]]

\* an updateHyperparameters that stores the merge before it looks at the model
UpdateHyperparametersStoreFirst(svc, hyperparameters, compileOk) ==
    [svc |-> [svc EXCEPT !.hyperparameters =
                 [null |-> FALSE, keys |-> Spread(OrEmpty(svc.hyperparameters), hyperparameters)]],
     outcome |-> IF svc.model = NoModel \/ ~compileOk THEN "throw" ELSE "true"]

\* updateHyperparameters: throws without a model; stores the merge of the
\* stored hyperparameters and the argument, then compiles the model again
UpdateHyperparameters(svc, hyperparameters, compileOk) ==
    IF svc.model = NoModel THEN [svc |-> svc, outcome |-> "throw"]
    ELSE LET hp == Spread(OrEmpty(svc.hyperparameters), hyperparameters)
             stored == [svc EXCEPT !.hyperparameters = [null |-> FALSE, keys |-> hp]]
         IN IF compileOk
            THEN [svc |-> [stored EXCEPT !.model = Compile(@, hp)], outcome |-> "true"]
            ELSE [svc |-> stored, outcome |-> "throw"]

(***************************************************************************)
(* AIService.predict: the confidence scores                                *)
(***************************************************************************)
\* prediction values are counted in quarters: 1.0 and 0.5
One == 4
Half == 2

PredictionValues == 0..One

\* a model has one output or two
OutputSizes == {1, 2}

\* Math.max() of no arguments, -Infinity: below every value
NegInfinity == 0 - 1

RECURSIVE MathMax(_)
\* Math.max(...predArray)
MathMax(predArray) ==
    IF Len(predArray) = 0 THEN NegInfinity
    ELSE LET rest == MathMax(Tail(predArray)) IN
         IF predArray[1] > rest THEN predArray[1] ELSE rest

ConfidenceOfMax(predArray) == MathMax(predArray)

\* the callback of results.map
Confidence(predArray) ==
    IF Len(predArray) = 1
    THEN LET value == predArray[1] IN
         IF value > Half THEN value ELSE One - value
    ELSE MathMax(predArray)

\* predict's return value once the runtime model has produced results
PredictReturn(results) ==
    [predictions |-> results,
     confidence |-> [k \in 1..Len(results) |-> Confidence(results[k])]]

\* nothing returned yet
NoReturn == [predictions |-> <<>>, confidence |-> <<>>]

\* the arrays predictions.array() can resolve to
PredictionArrays ==
    LET vectors == UNION {[1..m -> PredictionValues] : m \in OutputSizes}
    IN UNION {[1..n -> vectors] : n \in 1..MaxExamples}

\* predict from "const confidences = results.map(...)" to the return
PredictConfidences ==
    /\ predReturn = NoReturn
    /\ predReturn' = PredictReturn(predResults)
    /\ UNCHANGED predResults

PredStart ==
    /\ predResults \in PredictionArrays
    /\ predReturn = NoReturn

\* predict's computation is not looked at
PredOff ==
    /\ predResults = <<>>
    /\ predReturn = NoReturn

(***************************************************************************)
(* AI controller                                                           *)
(***************************************************************************)
\* liveAtLookup and liveAtCall are history fields of a trainModel request:
\* the value of aiService.installedFor when AIModel.findById was called and
\* when aiService.trainModel was called
AiIdle ==
    [op |-> "idle", pc |-> "done", user |-> None, id |-> NoId, status |-> 0,
     loaded |-> None, arg |-> None, result |-> None, path |-> None,
     liveAtLookup |-> NoId, liveAtCall |-> NoId, before |-> 0]

AiFree(s) == aiReqs[s].pc = "done"

AiDone(r, status) == [AiIdle EXCEPT !.op = r.op, !.status = status]

AiInFlight(op, pc) ==
    Cardinality({s \in DOMAIN aiReqs : aiReqs[s].op = op /\ aiReqs[s].pc = pc})

AiInFlightOn(op, id) ==
    Cardinality({s \in DOMAIN aiReqs :
        aiReqs[s].op = op /\ aiReqs[s].pc # "done" /\ aiReqs[s].id = id})

\* AIModel.findById(id)
ModelExists(id) == id \in 1..Len(aiModels)

\* new AIModel(modelData) of initializeModel, with the schema defaults
NewAIModel(userId) ==
    [userId |-> userId, status |-> "initialized", isPublic |-> FALSE,
     trainingData |-> 0, predictions |-> 0, epochs |-> 0, modelPath |-> None,
     currentVersion |-> 0, versions |-> <<>>, baseModel |-> NoId,
     freezeBaseLayers |-> None, architecture |-> "default",
     hyperparameters |-> "default", visualizations |-> 0]

\* initializeModel: the record is saved, then aiService.loadModel() runs and
\* the status to save is chosen
InitializeModelCreate(s, userId, fail) ==
    /\ AiFree(s)
    /\ Cardinality({i \in 1..Len(aiModels) : aiModels[i].baseModel = NoId}) < MaxModels
    /\ aiModels' = Append(aiModels, NewAIModel(userId))
    /\ LET load == LoadDefaultModel(aiService, fail) IN
        /\ aiService' = [load.svc EXCEPT !.installedFor =
              IF fail # "sequential" THEN Len(aiModels) + 1 ELSE @]
        /\ aiReqs' = [aiReqs EXCEPT ![s] =
              [AiIdle EXCEPT !.op = "initializeModel", !.pc = "save",
                             !.id = Len(aiModels) + 1, !.result = load.ok]]

\* initializeModel: the second aiModel.save() and the response
InitializeModelSave(s) ==
    /\ aiReqs[s].op = "initializeModel" /\ aiReqs[s].pc = "save"
    /\ aiModels' = [aiModels EXCEPT ![aiReqs[s].id].status =
          IF aiReqs[s].result THEN @ ELSE "error"]
    /\ aiReqs' = [aiReqs EXCEPT ![s] = AiDone(@, IF aiReqs[s].result THEN 200 ELSE 500)]
    /\ UNCHANGED aiService

\* trainModel: validation and AIModel.findById
TrainModelFindById(s, user, id, hasData, epochs) ==
    /\ AiFree(s)
    /\ ModelExists(id) =>
          aiModels[id].trainingData + AiInFlightOn("trainModel", id) < MaxRecords
    /\ aiReqs' = [aiReqs EXCEPT ![s] =
          LET r == [AiIdle EXCEPT !.op = "trainModel"] IN
          IF ~hasData THEN AiDone(r, 400)
          ELSE IF id = NoId THEN AiDone(r, 400)
          ELSE IF ~ModelExists(id) THEN AiDone(r, 404)
          ELSE [r EXCEPT !.pc = "addTrainingData", !.user = user, !.id = id,
                         !.arg = epochs, !.loaded = aiModels[id].status,
                         !.liveAtLookup = aiService.installedFor,
                         !.before = aiModels[id].trainingData]]
    /\ UNCHANGED <<aiModels, aiService>>

\* trainModel: aiModel.addTrainingData, then aiService.trainModel is called
TrainModelAddTrainingData(s, tensorsOk) ==
    /\ aiReqs[s].op = "trainModel" /\ aiReqs[s].pc = "addTrainingData"
    /\ aiModels' = [aiModels EXCEPT ![aiReqs[s].id].trainingData = @ + 1]
    /\ LET start == ServiceTrainStart(aiService, tensorsOk) IN
        /\ aiService' = start.svc
        /\ aiReqs' = [aiReqs EXCEPT ![s] =
              IF start.threw THEN AiDone(@, 500)
              ELSE [@ EXCEPT !.pc = "fit", !.liveAtCall = aiService.installedFor]]

\* trainModel: model.fit returns or throws; on return the document's status
\* and trainingHistory are set
TrainModelFit(s, fitOk) ==
    /\ aiReqs[s].op = "trainModel" /\ aiReqs[s].pc = "fit"
    /\ aiReqs' = [aiReqs EXCEPT ![s] =
          IF fitOk THEN [@ EXCEPT !.pc = "save", !.result = FitResult(aiReqs[s].arg)]
          ELSE AiDone(@, 500)]
    /\ UNCHANGED <<aiModels, aiService>>

\* decimal digits as characters; strings are sequences of characters
DigitChars == <<"0", "1", "2", "3", "4", "5", "6", "7", "8", "9">>

\* String(n) for 0 <= n <= 9
DigitString(n) == <<DigitChars[n + 1]>>

RECURSIVE ArrayToString(_)
\* Array.prototype.toString of an array of one-digit numbers: join with ","
ArrayToString(a) ==
    IF Len(a) = 0 THEN <<>>
    ELSE IF Len(a) = 1 THEN DigitString(a[1])
    ELSE DigitString(a[1]) \o <<",">> \o ArrayToString(Tail(a))

RECURSIVE ParseDigits(_)
\* value of a string of decimal digits
ParseDigits(str) ==
    IF Len(str) = 0 THEN 0
    ELSE 10 * ParseDigits(SubSeq(str, 1, Len(str) - 1))
         + (CHOOSE d \in 0..9 : DigitChars[d + 1] = str[Len(str)])

\* the value that is not a number
NaN == 0 - 1

\* a cast that takes no string for a number
CastNumberNaN(str) == NaN

\* mongoose's cast of a string to the Number path trainingHistory.epochs:
\* Number(str), NaN for a string that is not a numeral
CastNumber(str) ==
    IF \E i \in 1..Len(str) : str[i] = "," THEN NaN ELSE ParseDigits(str)

TrainingHistoryEpochsSame(result) == ArrayToString(result.epoch) \o DigitString(0)

\* "result.epoch + 1" as trainModel writes it: result.epoch is an array,
\* so + converts it to a string and appends "1"
TrainingHistoryEpochs(result) == ArrayToString(result.epoch) \o DigitString(1)

\* trainModel: aiModel.save() validates and writes the modified paths and
\* the response is 200; a save that fails validation writes nothing and the
\* catch block responds 500
TrainModelSave(s) ==
    /\ aiReqs[s].op = "trainModel" /\ aiReqs[s].pc = "save"
    /\ LET epochs == CastNumber(TrainingHistoryEpochs(aiReqs[s].result)) IN
        IF epochs = NaN
        THEN /\ aiReqs' = [aiReqs EXCEPT ![s] = AiDone(@, 500)]
             /\ UNCHANGED aiModels
        ELSE /\ aiModels' = [aiModels EXCEPT
                   ![aiReqs[s].id].status =
                       IF aiReqs[s].loaded # "trained" THEN "trained" ELSE @,
                   ![aiReqs[s].id].epochs = epochs]
             /\ aiReqs' = [aiReqs EXCEPT ![s] = AiDone(@, 200)]
    /\ UNCHANGED aiService

\* predict: validation and AIModel.findById
PredictFindById(s, user, id, hasInput) ==
    /\ AiFree(s)
    /\ ModelExists(id) =>
          aiModels[id].predictions + AiInFlightOn("predict", id) < MaxRecords
    /\ aiReqs' = [aiReqs EXCEPT ![s] =
          LET r == [AiIdle EXCEPT !.op = "predict"] IN
          IF ~hasInput THEN AiDone(r, 400)
          ELSE IF id = NoId THEN AiDone(r, 400)
          ELSE IF ~ModelExists(id) THEN AiDone(r, 404)
          ELSE [r EXCEPT !.pc = "predict", !.user = user, !.id = id]]
    /\ UNCHANGED <<aiModels, aiService>>

\* predict: aiService.predict
PredictRun(s, libOk) ==
    /\ aiReqs[s].op = "predict" /\ aiReqs[s].pc = "predict"
    /\ aiReqs' = [aiReqs EXCEPT ![s] =
          IF ServicePredictThrows(aiService, libOk) THEN AiDone(@, 500)
          ELSE [@ EXCEPT !.pc = "addPrediction"]]
    /\ UNCHANGED <<aiModels, aiService>>

\* predict: aiModel.addPrediction and the 200 response
PredictAddPrediction(s) ==
    /\ aiReqs[s].op = "predict" /\ aiReqs[s].pc = "addPrediction"
    /\ aiModels' = [aiModels EXCEPT ![aiReqs[s].id].predictions = @ + 1]
    /\ aiReqs' = [aiReqs EXCEPT ![s] = AiDone(@, 200)]
    /\ UNCHANGED aiService

\* saveModel: validation and AIModel.findById
SaveModelFindById(s, user, id) ==
    /\ AiFree(s)
    /\ aiReqs' = [aiReqs EXCEPT ![s] =
          LET r == [AiIdle EXCEPT !.op = "saveModel"] IN
          IF id = NoId THEN AiDone(r, 400)
          ELSE IF ~ModelExists(id) THEN AiDone(r, 404)
          ELSE [r EXCEPT !.pc = "saveModel", !.user = user, !.id = id,
                         !.loaded = aiModels[id].status]]
    /\ UNCHANGED <<aiModels, aiService>>

\* saveModel: aiService.saveModel(path)
SaveModelRun(s, libOk) ==
    /\ aiReqs[s].op = "saveModel" /\ aiReqs[s].pc = "saveModel"
    /\ aiReqs' = [aiReqs EXCEPT ![s] =
          IF ServiceSaveModel(aiService, libOk) THEN [@ EXCEPT !.pc = "save"]
          ELSE AiDone(@, 500)]
    /\ UNCHANGED <<aiModels, aiService>>

\* saveModel: aiModel.save() with modelPath and status saved; the 200 response
SaveModelSave(s) ==
    /\ aiReqs[s].op = "saveModel" /\ aiReqs[s].pc = "save"
    /\ aiModels' = [aiModels EXCEPT
          ![aiReqs[s].id].status = IF aiReqs[s].loaded # "saved" THEN "saved" ELSE @,
          ![aiReqs[s].id].modelPath = "path"]
    /\ aiReqs' = [aiReqs EXCEPT ![s] = AiDone(@, 200)]
    /\ UNCHANGED aiService

OwnerCheckNeverThrows(model) == FALSE

\* the check "model.userId.toString() !== userId.toString()": toString of
\* an absent userId throws
OwnerCheckThrows(model) == model.userId = None

IsOwner(model, userId) == model.userId = userId

\* the default storage path `file://./models/model_${modelId}_v${n}`
DefaultVersionPath(modelId, n) == [model |-> modelId, v |-> n]

\* a path given in the request
CustomPath == [model |-> NoId, v |-> 0]

\* createModelVersion: validation, AIModel.findById, the owner check and
\* the choice of the path
CreateModelVersionFindById(s, user, id, hasPath) ==
    /\ AiFree(s)
    /\ ModelExists(id) =>
          Len(aiModels[id].versions) + AiInFlightOn("createModelVersion", id) < MaxVersions
    /\ aiReqs' = [aiReqs EXCEPT ![s] =
          LET r == [AiIdle EXCEPT !.op = "createModelVersion"] IN
          IF id = NoId THEN AiDone(r, 400)
          ELSE IF ~ModelExists(id) THEN AiDone(r, 404)
          ELSE IF OwnerCheckThrows(aiModels[id]) THEN AiDone(r, 500)
          ELSE IF ~IsOwner(aiModels[id], user) THEN AiDone(r, 403)
          ELSE [r EXCEPT !.pc = "createVersion", !.user = user, !.id = id,
                         !.loaded = aiModels[id].currentVersion,
                         !.path = IF hasPath THEN CustomPath
                                  ELSE DefaultVersionPath(id, aiModels[id].currentVersion + 1)]]
    /\ UNCHANGED <<aiModels, aiService>>

\* model.createVersion(path, ...) on the document as it was loaded: the
\* next number is the loaded currentVersion + 1; the save appends the
\* version and sets currentVersion
CreateVersion(stored, loadedCurrentVersion, path) ==
    [stored EXCEPT
        !.versions = Append(@, [versionNumber |-> loadedCurrentVersion + 1, modelPath |-> path]),
        !.currentVersion = loadedCurrentVersion + 1]

\* createModelVersion: await model.createVersion and the 200 response
CreateModelVersionCreateVersion(s) ==
    /\ aiReqs[s].op = "createModelVersion" /\ aiReqs[s].pc = "createVersion"
    /\ aiModels' = [aiModels EXCEPT ![aiReqs[s].id] =
          CreateVersion(@, aiReqs[s].loaded, aiReqs[s].path)]
    /\ aiReqs' = [aiReqs EXCEPT ![s] = AiDone(@, 200)]
    /\ UNCHANGED aiService

\* values of an optional boolean in a request body
OptionalBooleans == {None, "true", "false"}

CloneHasAccessOwnerOnly(model, userId) == model.userId = userId

\* cloneModelForTransfer: hasAccess
CloneHasAccess(model, userId) == model.userId = userId \/ model.isPublic

\* cloneModelForTransfer: "freezeBaseLayers !== false"
FreezeBaseLayersOption(freezeBaseLayers) == freezeBaseLayers # "false"

\* cloneModelForTransfer: validation, AIModel.findById and the access check
CloneFindById(s, user, id, freezeBaseLayers) ==
    /\ AiFree(s)
    /\ Cardinality({i \in 1..Len(aiModels) : aiModels[i].baseModel # NoId})
          + AiInFlight("cloneModelForTransfer", "clone") < MaxClones
    /\ aiReqs' = [aiReqs EXCEPT ![s] =
          LET r == [AiIdle EXCEPT !.op = "cloneModelForTransfer"] IN
          IF id = NoId THEN AiDone(r, 400)
          ELSE IF ~ModelExists(id) THEN AiDone(r, 404)
          ELSE IF OwnerCheckThrows(aiModels[id]) THEN AiDone(r, 500)
          ELSE IF ~CloneHasAccess(aiModels[id], user) THEN AiDone(r, 403)
          ELSE [r EXCEPT !.pc = "clone", !.user = user, !.id = id,
                         !.arg = freezeBaseLayers]]
    /\ UNCHANGED <<aiModels, aiService>>

\* sourceModel.clone(userId, options): a new document of the requester that
\* points back at the source, with status initialized
Clone(sourceId, userId, options) ==
    [NewAIModel(userId) EXCEPT !.baseModel = sourceId,
                               !.freezeBaseLayers = options.freezeBaseLayers]

\* cloneModelForTransfer: await sourceModel.clone and the 200 response
CloneCreate(s) ==
    /\ aiReqs[s].op = "cloneModelForTransfer" /\ aiReqs[s].pc = "clone"
    /\ aiModels' = Append(aiModels,
          Clone(aiReqs[s].id, aiReqs[s].user,
                [freezeBaseLayers |-> FreezeBaseLayersOption(aiReqs[s].arg)]))
    /\ aiReqs' = [aiReqs EXCEPT ![s] = AiDone(@, 200)]
    /\ UNCHANGED aiService

\* toggleModelVisibility: validation, AIModel.findById and the owner check
ToggleModelVisibilityFindById(s, user, id, isPublic) ==
    /\ AiFree(s)
    /\ aiReqs' = [aiReqs EXCEPT ![s] =
          LET r == [AiIdle EXCEPT !.op = "toggleModelVisibility"] IN
          IF id = NoId \/ isPublic = None THEN AiDone(r, 400)
          ELSE IF ~ModelExists(id) THEN AiDone(r, 404)
          ELSE IF OwnerCheckThrows(aiModels[id]) THEN AiDone(r, 500)
          ELSE IF ~IsOwner(aiModels[id], user) THEN AiDone(r, 403)
          ELSE [r EXCEPT !.pc = "save", !.user = user, !.id = id,
                         !.arg = (isPublic = "true"),
                         !.loaded = aiModels[id].isPublic]]
    /\ UNCHANGED <<aiModels, aiService>>

\* toggleModelVisibility: model.save() writes isPublic if the assignment
\* changed it; the 200 response
ToggleModelVisibilitySave(s) ==
    /\ aiReqs[s].op = "toggleModelVisibility" /\ aiReqs[s].pc = "save"
    /\ aiModels' = [aiModels EXCEPT ![aiReqs[s].id].isPublic =
          IF aiReqs[s].arg # aiReqs[s].loaded THEN aiReqs[s].arg ELSE @]
    /\ aiReqs' = [aiReqs EXCEPT ![s] = AiDone(@, 200)]
    /\ UNCHANGED aiService

\* updateArchitecture, updateHyperparameters and addVisualization have one
\* shape: validation of modelId and the fields, AIModel.findById, the owner
\* check, then one awaited method of the document
UpdateOps == {"updateArchitecture", "updateHyperparameters", "addVisualization"}

OwnerCheckedFindById(s, op, user, id, hasFields) ==
    /\ AiFree(s)
    /\ (op = "addVisualization" /\ ModelExists(id)) =>
          aiModels[id].visualizations + AiInFlightOn("addVisualization", id) < MaxRecords
    /\ aiReqs' = [aiReqs EXCEPT ![s] =
          LET r == [AiIdle EXCEPT !.op = op] IN
          IF id = NoId \/ ~hasFields THEN AiDone(r, 400)
          ELSE IF ~ModelExists(id) THEN AiDone(r, 404)
          ELSE IF OwnerCheckThrows(aiModels[id]) THEN AiDone(r, 500)
          ELSE IF ~IsOwner(aiModels[id], user) THEN AiDone(r, 403)
          ELSE [r EXCEPT !.pc = "update", !.user = user, !.id = id]]
    /\ UNCHANGED <<aiModels, aiService>>

\* model.updateArchitecture(...), model.updateHyperparameters(...) and
\* model.addVisualization(...): the document with the request's values
UpdatedModel(model, op) ==
    CASE op = "updateArchitecture" -> [model EXCEPT !.architecture = "updated"]
      [] op = "updateHyperparameters" -> [model EXCEPT !.hyperparameters = "updated"]
      [] op = "addVisualization" -> [model EXCEPT !.visualizations = @ + 1]

\* the awaited method and the 200 response
OwnerCheckedUpdate(s) ==
    /\ aiReqs[s].op \in UpdateOps /\ aiReqs[s].pc = "update"
    /\ aiModels' = [aiModels EXCEPT ![aiReqs[s].id] = UpdatedModel(@, aiReqs[s].op)]
    /\ aiReqs' = [aiReqs EXCEPT ![s] = AiDone(@, 200)]
    /\ UNCHANGED aiService

AiStart ==
    /\ aiModels = <<>>
    /\ aiService = NewAIService
    /\ aiReqs = [s \in Slots |-> AiIdle]

\* no AI request is ever made
AiOff ==
    /\ aiModels = <<>>
    /\ aiService = NewAIService
    /\ aiReqs = <<>>

(***************************************************************************)
(* Routers: routes/index.js, aiRoutes.js, datasetRoutes.js                 *)
(***************************************************************************)
\* router.METHOD(path, handler)
Route(method, path, handler) ==
    [kind |-> "route", method |-> method, path |-> path, handler |-> handler]

\* router.use(middleware)
Use(handler) ==
    [kind |-> "use", method |-> None, path |-> <<>>, handler |-> handler]

\* router.use(prefix, router)
Mount(prefix, router) ==
    [kind |-> "mount", method |-> None, path |-> <<prefix>>, handler |-> router]

\* paths are sequences of segments; these segments are route parameters
RouteParams == {":modelId", ":id"}

apiRoutes ==
    <<Route("GET", <<"health">>, "health"),
      Mount("ai", "aiRoutes"),
      Mount("datasets", "datasetRoutes")>>

aiRoutes ==
    <<Route("GET", <<"models">>, "getModels"),
      Route("GET", <<"models", ":modelId">>, "getModelDetails"),
      Route("GET", <<"public-models">>, "getPublicModels"),
      Use("authenticate"),
      Route("POST", <<"initialize">>, "initializeModel"),
      Route("POST", <<"train">>, "trainModel"),
      Route("POST", <<"predict">>, "predict"),
      Route("POST", <<"save">>, "saveModel"),
      Route("POST", <<"clone">>, "cloneModelForTransfer"),
      Route("PUT", <<"architecture">>, "updateArchitecture"),
      Route("PUT", <<"hyperparameters">>, "updateHyperparameters"),
      Route("POST", <<"visualization">>, "addVisualization"),
      Route("POST", <<"version">>, "createModelVersion"),
      Route("PUT", <<"visibility">>, "toggleModelVisibility")>>

datasetRoutes ==
    <<Use("authenticate"),
      Route("POST", <<>>, "createDataset"),
      Route("GET", <<>>, "getDatasets"),
      Route("GET", <<":id">>, "getDatasetById"),
      Route("PUT", <<":id">>, "updateDataset"),
      Route("POST", <<":id", "share">>, "shareDataset"),
      Route("DELETE", <<":id">>, "deleteDataset"),
      Route("POST", <<":id", "preprocessing">>, "addPreprocessingStep"),
      Route("POST", <<":id", "versions">>, "addDatasetVersion"),
      Route("PUT", <<":id", "statistics">>, "updateStatistics"),
      Route("PUT", <<":id", "metadata">>, "updateMetadata")>>

Layers(router) ==
    CASE router = "aiRoutes" -> aiRoutes
      [] router = "datasetRoutes" -> datasetRoutes
      [] OTHER -> apiRoutes

\* a route's path matches the rest of the request path
MatchPath(pattern, path) ==
    /\ Len(pattern) = Len(path)
    /\ \A i \in 1..Len(pattern) : pattern[i] \in RouteParams \/ pattern[i] = path[i]

\* a mount prefix matches the start of the request path
MatchPrefix(prefix, path) ==
    /\ Len(prefix) <= Len(path)
    /\ \A i \in 1..Len(prefix) : prefix[i] = path[i]

Methods == {"GET", "POST", "PUT", "DELETE"}

\* request paths below /api
RequestPaths ==
    {<<"health">>, <<"nowhere">>,
     <<"ai", "models">>, <<"ai", "models", "1">>, <<"ai", "public-models">>,
     <<"ai", "initialize">>, <<"ai", "train">>, <<"ai", "predict">>, <<"ai", "save">>,
     <<"ai", "clone">>, <<"ai", "architecture">>, <<"ai", "hyperparameters">>,
     <<"ai", "visualization">>, <<"ai", "version">>, <<"ai", "visibility">>,
     <<"datasets">>, <<"datasets", "1">>, <<"datasets", "1", "share">>,
     <<"datasets", "1", "preprocessing">>, <<"datasets", "1", "versions">>,
     <<"datasets", "1", "statistics">>, <<"datasets", "1", "metadata">>}

\* what extractToken returns: nothing, a string that does not verify, or a
\* token signed for user id 1, 2 or 3
Tokens == {None, "invalid", "token1", "token2", "token3"}

\* verifyToken: the decoded id, or null
VerifyToken(token) ==
    CASE token = "token1" -> 1
      [] token = "token2" -> 2
      [] token = "token3" -> 3
      [] OTHER -> NoId

AuthenticateActiveUnchecked(token, store) ==
    IF token = None THEN [status |-> 401, user |-> NoId]
    ELSE IF VerifyToken(token) = NoId THEN [status |-> 401, user |-> NoId]
    ELSE IF VerifyToken(token) \notin 1..Len(store) THEN [status |-> 404, user |-> NoId]
    ELSE [status |-> 0, user |-> VerifyToken(token)]

\* authenticate: the status it responds with, or 0 and the user for next()
Authenticate(token, store) ==
    IF token = None THEN [status |-> 401, user |-> NoId]
    ELSE IF VerifyToken(token) = NoId THEN [status |-> 401, user |-> NoId]
    ELSE IF VerifyToken(token) \notin 1..Len(store) THEN [status |-> 404, user |-> NoId]
    ELSE IF ~store[VerifyToken(token)].isActive THEN [status |-> 403, user |-> NoId]
    ELSE [status |-> 0, user |-> VerifyToken(token)]

\* a request on an authenticated route: authenticate up to next(), or its
\* own response
AuthenticateFindById(s, token) ==
    /\ AuthFree(s)
    /\ authReqs' = [authReqs EXCEPT ![s] =
          LET r == [AuthIdle EXCEPT !.op = "authenticated"]
              a == Authenticate(token, users)
          IN  IF a.status # 0 THEN [AuthDone(r, a.status) EXCEPT !.id = VerifyToken(token)]
              ELSE [r EXCEPT !.pc = "handler", !.id = a.user]]
    /\ UNCHANGED users

\* the handler behind authenticate runs and answers
AuthenticatedHandler(s) ==
    /\ authReqs[s].op = "authenticated" /\ authReqs[s].pc = "handler"
    /\ authReqs' = [authReqs EXCEPT ![s] = AuthDone(@, 200)]
    /\ UNCHANGED users

HttpIdle ==
    [pc |-> "idle", method |-> None, path |-> <<>>, token |-> None,
     router |-> None, layer |-> 0, rest |-> <<>>, back |-> 0, user |-> NoId]

NoResponse == [status |-> 0, handler |-> None, router |-> None, user |-> NoId]

\* a request arrives at the API router
HttpReceive(method, path, token) ==
    /\ httpReq.pc = "idle"
    /\ httpReq' = [HttpIdle EXCEPT !.pc = "routing", !.method = method, !.path = path,
                                   !.token = token, !.router = "apiRoutes",
                                   !.layer = 1, !.rest = path]
    /\ httpRes' = NoResponse

HttpLayer == Layers(httpReq.router)[httpReq.layer]

HttpAtLayer(kind) ==
    /\ httpReq.pc = "routing"
    /\ httpReq.layer <= Len(Layers(httpReq.router))
    /\ HttpLayer.kind = kind

\* a route layer: its handler runs if method and path match, else the next
\* layer is tried
HttpRouteLayer ==
    /\ HttpAtLayer("route")
    /\ IF HttpLayer.method = httpReq.method /\ MatchPath(HttpLayer.path, httpReq.rest)
       THEN /\ httpRes' = [status |-> 200, handler |-> HttpLayer.handler,
                           router |-> httpReq.router, user |-> httpReq.user]
            /\ httpReq' = [httpReq EXCEPT !.pc = "idle"]
       ELSE /\ httpReq' = [httpReq EXCEPT !.layer = @ + 1]
            /\ UNCHANGED httpRes

\* a mounted router: entered with the prefix stripped if the prefix matches
HttpMountLayer ==
    /\ HttpAtLayer("mount")
    /\ httpReq' =
          IF MatchPrefix(HttpLayer.path, httpReq.rest)
          THEN [httpReq EXCEPT !.router = HttpLayer.handler, !.layer = 1,
                               !.rest = SubSeq(@, Len(HttpLayer.path) + 1, Len(@)),
                               !.back = httpReq.layer + 1]
          ELSE [httpReq EXCEPT !.layer = @ + 1]
    /\ UNCHANGED httpRes

\* router.use(authenticate): responds, or attaches the user and calls next()
HttpAuthenticateLayer ==
    /\ HttpAtLayer("use")
    /\ LET auth == Authenticate(httpReq.token, users) IN
       IF auth.status # 0
       THEN /\ httpRes' = [status |-> auth.status, handler |-> None,
                           router |-> httpReq.router, user |-> NoId]
            /\ httpReq' = [httpReq EXCEPT !.pc = "idle"]
       ELSE /\ httpReq' = [httpReq EXCEPT !.user = auth.user, !.layer = @ + 1]
            /\ UNCHANGED httpRes

\* no layer of the router is left: a mounted router hands back to the API
\* router, the API router has no route for the request
HttpEndOfLayers ==
    /\ httpReq.pc = "routing"
    /\ httpReq.layer > Len(Layers(httpReq.router))
    /\ IF httpReq.router = "apiRoutes"
       THEN /\ httpRes' = [NoResponse EXCEPT !.status = 404]
            /\ httpReq' = [httpReq EXCEPT !.pc = "idle"]
       ELSE /\ httpReq' = [httpReq EXCEPT !.router = "apiRoutes", !.layer = httpReq.back,
                                          !.rest = httpReq.path]
            /\ UNCHANGED httpRes

\* the accounts of the routing specification: 1 is active, 2 is deactivated
HttpUsers ==
    <<[username |-> "alice", email |-> None, role |-> "admin", isActive |-> TRUE],
      [username |-> "bob", email |-> None, role |-> "user", isActive |-> FALSE]>>

HttpStart ==
    /\ httpReq = HttpIdle
    /\ httpRes = NoResponse

\* no request is routed
HttpOff ==
    /\ httpReq = HttpIdle
    /\ httpRes = NoResponse

(***************************************************************************)
(* Specification of registration                                           *)
(***************************************************************************)
AuthInit == AuthStart /\ DsOff /\ AiOff /\ PredOff /\ HttpOff

AuthNext ==
    \/ \E s \in Slots, n \in Usernames \cup {None}, p \in BOOLEAN,
          e \in Emails \cup {None} :
          RegisterFindUsername(s, n, p, e) /\ UNCHANGED <<dsVars, aiVars, predVars, httpVars>>
    \/ \E s \in Slots : RegisterFindEmail(s) /\ UNCHANGED <<dsVars, aiVars, predVars, httpVars>>
    \/ \E s \in Slots : RegisterCount(s) /\ UNCHANGED <<dsVars, aiVars, predVars, httpVars>>
    \/ \E s \in Slots : RegisterSave(s) /\ UNCHANGED <<dsVars, aiVars, predVars, httpVars>>

SpecAuth == AuthInit /\ [][AuthNext]_vars

\* C4: the first account created has role admin and every later one has role
\* user, so exactly one account holds the admin role.
C4_FirstUserOnlyAdmin ==
    \A i \in 1..Len(users) :
        users[i].role = (IF i = 1 THEN "admin" ELSE "user")
(***************************************************************************)
(* Specification of initialize, train, predict and save                    *)
(***************************************************************************)
TrainInit == AiStart /\ DsOff /\ AuthOff /\ PredOff /\ HttpOff

TrainNext ==
    \/ \E s \in Slots, u \in AiUsers, f \in LoadFailures :
          /\ Len(aiModels) < MaxInitialized
          /\ InitializeModelCreate(s, u, f)
          /\ UNCHANGED <<dsVars, authVars, predVars, httpVars>>
    \/ \E s \in Slots : InitializeModelSave(s) /\ UNCHANGED <<dsVars, authVars, predVars, httpVars>>
    \/ \E s \in Slots, u \in AiUsers, i \in 0..MaxModels, d \in BOOLEAN,
          e \in EpochChoices \cup {NoEpochs} :
          TrainModelFindById(s, u, i, d, e) /\ UNCHANGED <<dsVars, authVars, predVars, httpVars>>
    \/ \E s \in Slots, ok \in BOOLEAN :
          TrainModelAddTrainingData(s, ok) /\ UNCHANGED <<dsVars, authVars, predVars, httpVars>>
    \/ \E s \in Slots, ok \in BOOLEAN :
          TrainModelFit(s, ok) /\ UNCHANGED <<dsVars, authVars, predVars, httpVars>>
    \/ \E s \in Slots : TrainModelSave(s) /\ UNCHANGED <<dsVars, authVars, predVars, httpVars>>

SpecTrain == TrainInit /\ [][TrainNext]_vars

(***************************************************************************)
(* Claims on initialize and train                                          *)
(***************************************************************************)
\* the accounts with role admin: U1 registered first
AiAdmins == {"U1"}

MutatingOps == {"trainModel", "predict", "saveModel"}

\* C1: a request on a private model by a user who is neither its owner nor
\* an admin is answered 403 and leaves the stored models unchanged.
C1_OwnershipEnforced ==
    [][\A s \in Slots :
          LET r == aiReqs[s] IN
          (/\ aiReqs'[s] # r
           /\ r.pc # "done"
           /\ r.op \in MutatingOps
           /\ aiModels[r.id].userId # r.user
           /\ r.user \notin AiAdmins
           /\ ~aiModels[r.id].isPublic)
          => /\ aiModels' = aiModels
             /\ aiReqs'[s].pc = "done"
             /\ aiReqs'[s].status = 403]_vars

\* C7: when the adapter fails during train or predict, the handler answers
\* 500 and the model record's status is set to error.
C7_AdapterFailureSetsError ==
    [][\A s \in Slots :
          LET r == aiReqs[s] IN
          (/\ r.op \in {"trainModel", "predict"}
           /\ r.pc \in {"addTrainingData", "fit", "predict"}
           /\ aiReqs'[s].pc = "done"
           /\ aiReqs'[s].status = 500)
          => aiModels'[r.id].status = "error"]_vars

\* index of the final epoch in a fit result
FinalEpoch(result) == result.epoch[Len(result.epoch)]

BecomesTrained(i) ==
    /\ aiModels'[i].status = "trained"
    /\ i \in 1..Len(aiModels) => aiModels[i].status # "trained"

VersionNext ==
    \/ \E s \in Slots, u \in AiUsers :
          /\ Len(aiModels) < MaxInitialized
          /\ InitializeModelCreate(s, u, "none")
          /\ UNCHANGED <<dsVars, authVars, predVars, httpVars>>
    \/ \E s \in Slots : InitializeModelSave(s) /\ UNCHANGED <<dsVars, authVars, predVars, httpVars>>
    \/ \E s \in Slots, u \in AiUsers, i \in 0..MaxModels, p \in BOOLEAN :
          CreateModelVersionFindById(s, u, i, p) /\ UNCHANGED <<dsVars, authVars, predVars, httpVars>>
    \/ \E s \in Slots :
          CreateModelVersionCreateVersion(s) /\ UNCHANGED <<dsVars, authVars, predVars, httpVars>>

SpecVersion == TrainInit /\ [][VersionNext]_vars

\* C5: on every model the versions are numbered 1, 2, 3, ... in order,
\* currentVersion is the number of versions, and a default storage path
\* carries the number of its own version.
C5_VersionNumbers ==
    \A i \in 1..Len(aiModels) :
        /\ aiModels[i].currentVersion = Len(aiModels[i].versions)
        /\ \A n \in 1..Len(aiModels[i].versions) :
              LET v == aiModels[i].versions[n] IN
              /\ v.versionNumber = n
              /\ v.modelPath # CustomPath => v.modelPath = DefaultVersionPath(i, n)

\* C28: a train request that fails in the adapter, before or during fit,
\* exposes no partial write: when it is answered 500 the trainingData, the
\* status and the trainingHistory of the named model are what they were when
\* the request looked the model up.
C28_FailedTrainWritesNothing ==
    [][\A s \in Slots :
          (/\ aiReqs[s].op = "trainModel"
           /\ aiReqs[s].pc \in {"addTrainingData", "fit"}
           /\ aiReqs'[s].pc = "done" /\ aiReqs'[s].status = 500) =>
             /\ aiModels'[aiReqs[s].id].trainingData = aiReqs[s].before
             /\ aiModels'[aiReqs[s].id].status = aiReqs[s].loaded
             /\ aiModels'[aiReqs[s].id].epochs = aiModels[aiReqs[s].id].epochs]_vars

(***************************************************************************)
(* Specification of initialize, clone and toggleModelVisibility            *)
(***************************************************************************)
\* ids in requests: none, the initialized model, and the clones
ModelIds == 0..(MaxClones + 1)

Answered(s, status) == aiReqs'[s].pc = "done" /\ aiReqs'[s].status = status

\* one model is initialized, by any user or without userId; it and its
\* clones are the sources of the clone requests
CloneNext ==
    \/ \E s \in Slots, u \in AiUsers \cup {None} :
          /\ aiModels = <<>>
          /\ InitializeModelCreate(s, u, "none")
          /\ UNCHANGED <<dsVars, authVars, predVars, httpVars>>
    \/ \E s \in Slots : InitializeModelSave(s) /\ UNCHANGED <<dsVars, authVars, predVars, httpVars>>
    \/ \E s \in Slots, u \in AiUsers, i \in ModelIds, f \in OptionalBooleans :
          CloneFindById(s, u, i, f) /\ UNCHANGED <<dsVars, authVars, predVars, httpVars>>
    \/ \E s \in Slots : CloneCreate(s) /\ UNCHANGED <<dsVars, authVars, predVars, httpVars>>
    \/ \E s \in Slots, u \in AiUsers, i \in ModelIds, v \in OptionalBooleans :
          ToggleModelVisibilityFindById(s, u, i, v) /\ UNCHANGED <<dsVars, authVars, predVars, httpVars>>
    \/ \E s \in Slots :
          ToggleModelVisibilitySave(s) /\ UNCHANGED <<dsVars, authVars, predVars, httpVars>>

SpecClone == TrainInit /\ [][CloneNext]_vars

\* C9 (as stated): a clone request proceeds to create the clone if the source
\* exists and the requester owns it or it is public, and is answered 403
\* otherwise; a rejected request creates no model.
C9_CloneElse403 ==
    [][\A s \in Slots, u \in AiUsers, i \in ModelIds \ {NoId}, f \in OptionalBooleans :
          CloneFindById(s, u, i, f) =>
             /\ aiModels' = aiModels
             /\ IF ModelExists(i) /\ (aiModels[i].userId = u \/ aiModels[i].isPublic)
                THEN aiReqs'[s].pc = "clone"
                ELSE Answered(s, 403)]_vars

\* C9 (amended): a clone request on a source that exists and has an owner
\* proceeds if the requester owns the source or the stored isPublic is true
\* when the source is looked up, and is answered 403 otherwise; a missing id
\* is answered 400, a source that does not exist 404 and a source without
\* owner 500; no rejected request creates a model.  The clone step appends
\* one model owned by the requester with baseModel the source id, status
\* initialized and freezeBaseLayers true unless the request gave false.
\* isPublic changes only in the save of a toggleModelVisibility of the owner,
\* to the requested value.
C9_CloneDecision ==
    [][/\ \A s \in Slots :
            LET r == aiReqs[s] IN
            /\ (aiReqs'[s] # r /\ aiReqs'[s].op = "cloneModelForTransfer") =>
               \A u \in AiUsers, i \in ModelIds, f \in OptionalBooleans :
                  CloneFindById(s, u, i, f) =>
                     /\ aiModels' = aiModels
                     /\ IF i = NoId THEN Answered(s, 400)
                        ELSE IF ~ModelExists(i) THEN Answered(s, 404)
                        ELSE IF aiModels[i].userId = None THEN Answered(s, 500)
                        ELSE IF aiModels[i].userId = u \/ aiModels[i].isPublic
                        THEN /\ aiReqs'[s].pc = "clone"
                             /\ aiReqs'[s].id = i /\ aiReqs'[s].user = u
                        ELSE Answered(s, 403)
            /\ (/\ r.op = "cloneModelForTransfer" /\ r.pc = "clone"
                /\ aiReqs'[s] # r)
               => /\ Answered(s, 200)
                  /\ Len(aiModels') = Len(aiModels) + 1
                  /\ SubSeq(aiModels', 1, Len(aiModels)) = aiModels
                  /\ LET m == aiModels'[Len(aiModels')] IN
                      /\ m.baseModel = r.id
                      /\ m.status = "initialized"
                      /\ m.userId = r.user
                      /\ m.freezeBaseLayers = (r.arg # "false")
       /\ \A i \in 1..Len(aiModels') :
            (i > Len(aiModels) /\ aiModels'[i].baseModel # NoId) =>
               \E s \in Slots :
                  /\ aiReqs[s].op = "cloneModelForTransfer"
                  /\ aiReqs[s].pc = "clone" /\ aiReqs'[s] # aiReqs[s]
       /\ \A i \in 1..Len(aiModels) :
            aiModels'[i].isPublic # aiModels[i].isPublic =>
               \E s \in Slots :
                  /\ aiReqs[s].op = "toggleModelVisibility"
                  /\ aiReqs[s].pc = "save" /\ aiReqs[s].id = i
                  /\ aiReqs[s].user = aiModels[i].userId
                  /\ aiModels'[i].isPublic = aiReqs[s].arg]_vars

\* a user who does not own the source has cloned it, without giving
\* freezeBaseLayers, after the owner made it public
C9_Witness ==
    \E s \in Slots, c \in 1..Len(aiModels) :
        /\ aiReqs[s].op = "cloneModelForTransfer" /\ aiReqs[s].status = 200
        /\ aiModels[c].baseModel # NoId
        /\ aiModels[c].userId # aiModels[aiModels[c].baseModel].userId
        /\ aiModels[c].freezeBaseLayers = TRUE

(***************************************************************************)
(* Specification of predict's confidence scores                            *)
(***************************************************************************)
PredInit == PredStart /\ DsOff /\ AuthOff /\ AiOff /\ HttpOff

PredNext == PredictConfidences /\ UNCHANGED <<dsVars, authVars, aiVars, httpVars>>

SpecPredict == PredInit /\ [][PredNext]_vars

Max2(a, b) == IF a >= b THEN a ELSE b

\* C6: predict returns the predictions in input order with one confidence per
\* example; for a one-output example with value p the confidence is
\* max(p, 1-p), between 0.5 and 1.0; for an example with several outputs it is
\* the greatest element of the output vector.
C6_Confidence ==
    predReturn # NoReturn =>
        /\ predReturn.predictions = predResults
        /\ Len(predReturn.confidence) = Len(predResults)
        /\ \A k \in 1..Len(predResults) :
              LET out == predResults[k]
                  c == predReturn.confidence[k]
              IN IF Len(out) = 1
                 THEN c = Max2(out[1], One - out[1]) /\ Half <= c /\ c <= One
                 ELSE /\ \E j \in 1..Len(out) : c = out[j]
                      /\ \A j \in 1..Len(out) : out[j] <= c

\* predict has returned for two examples, the first with one output 0.5 or
\* lower and the second with two outputs
C6_Witness ==
    /\ predReturn # NoReturn
    /\ Len(predResults) = 2
    /\ Len(predResults[1]) = 1 /\ predResults[1][1] <= Half
    /\ Len(predResults[2]) = 2 /\ predResults[2][1] < predResults[2][2]

(***************************************************************************)
(* Specification of the API router                                         *)
(***************************************************************************)
HttpInit ==
    /\ HttpStart /\ DsOff /\ AiOff /\ PredOff
    /\ users = HttpUsers /\ authReqs = <<>>

HttpNext ==
    \/ \E m \in Methods, p \in RequestPaths, k \in Tokens :
          HttpReceive(m, p, k) /\ UNCHANGED <<dsVars, authVars, aiVars, predVars>>
    \/ HttpRouteLayer /\ UNCHANGED <<dsVars, authVars, aiVars, predVars>>
    \/ HttpMountLayer /\ UNCHANGED <<dsVars, authVars, aiVars, predVars>>
    \/ HttpAuthenticateLayer /\ UNCHANGED <<dsVars, authVars, aiVars, predVars>>
    \/ HttpEndOfLayers /\ UNCHANGED <<dsVars, authVars, aiVars, predVars>>

SpecRoutes == HttpInit /\ [][HttpNext]_vars

\* the handlers the claim leaves open: the two listings (registration and
\* login are not routes of these routers)
OpenHandlers == {"getModels", "getPublicModels"}

\* C10: on the AI and dataset routers every handler other than the model
\* listing and the public-model listing runs only for a request that
\* authenticate has accepted.
C10_HandlersBehindAuthenticate ==
    (/\ httpRes.router \in {"aiRoutes", "datasetRoutes"}
     /\ httpRes.handler # None
     /\ httpRes.handler \notin OpenHandlers)
    => httpRes.user # NoId

(***************************************************************************)
(* Specification of initialize, predict and save                           *)
(***************************************************************************)
ServeNext ==
    \/ \E s \in Slots, u \in AiUsers \cup {None}, f \in LoadFailures :
          /\ Len(aiModels) < MaxInitialized
          /\ InitializeModelCreate(s, u, f)
          /\ UNCHANGED <<dsVars, authVars, predVars, httpVars>>
    \/ \E s \in Slots : InitializeModelSave(s) /\ UNCHANGED <<dsVars, authVars, predVars, httpVars>>
    \/ \E s \in Slots, u \in AiUsers, i \in 0..MaxModels, d \in BOOLEAN :
          PredictFindById(s, u, i, d) /\ UNCHANGED <<dsVars, authVars, predVars, httpVars>>
    \/ \E s \in Slots, ok \in BOOLEAN :
          PredictRun(s, ok) /\ UNCHANGED <<dsVars, authVars, predVars, httpVars>>
    \/ \E s \in Slots : PredictAddPrediction(s) /\ UNCHANGED <<dsVars, authVars, predVars, httpVars>>
    \/ \E s \in Slots, u \in AiUsers, i \in 0..MaxModels :
          SaveModelFindById(s, u, i) /\ UNCHANGED <<dsVars, authVars, predVars, httpVars>>
    \/ \E s \in Slots, ok \in BOOLEAN :
          SaveModelRun(s, ok) /\ UNCHANGED <<dsVars, authVars, predVars, httpVars>>
    \/ \E s \in Slots : SaveModelSave(s) /\ UNCHANGED <<dsVars, authVars, predVars, httpVars>>

SpecServe == TrainInit /\ [][ServeNext]_vars

(***************************************************************************)
(* Specification of account deactivation                                   *)
(***************************************************************************)
\* a valid token of each account and one that does not verify
UserTokens == {"token1", "token2", "invalid"}

DeactivateInit ==
    /\ users = <<[username |-> "alice", email |-> None, role |-> "admin", isActive |-> TRUE],
                 [username |-> "bob", email |-> None, role |-> "user", isActive |-> TRUE]>>
    /\ authReqs = [s \in Slots |-> AuthIdle]
    /\ DsOff /\ AiOff /\ PredOff /\ HttpOff

DeactivateNext ==
    \/ \E s \in Slots, i \in 1..(MaxUsers + 1), a \in BOOLEAN :
          ToggleUserStatusFindById(s, i, a) /\ UNCHANGED <<dsVars, aiVars, predVars, httpVars>>
    \/ \E s \in Slots : ToggleUserStatusSave(s) /\ UNCHANGED <<dsVars, aiVars, predVars, httpVars>>
    \/ \E s \in Slots, n \in {None, "alice", "bob", "carol"}, p \in BOOLEAN :
          LoginFindByUsernameOrEmail(s, n, p) /\ UNCHANGED <<dsVars, aiVars, predVars, httpVars>>
    \/ \E s \in Slots, m \in BOOLEAN :
          LoginComparePassword(s, m) /\ UNCHANGED <<dsVars, aiVars, predVars, httpVars>>
    \/ \E s \in Slots : LoginSave(s) /\ UNCHANGED <<dsVars, aiVars, predVars, httpVars>>
    \/ \E s \in Slots, k \in UserTokens :
          AuthenticateFindById(s, k) /\ UNCHANGED <<dsVars, aiVars, predVars, httpVars>>
    \/ \E s \in Slots : AuthenticatedHandler(s) /\ UNCHANGED <<dsVars, aiVars, predVars, httpVars>>

SpecDeactivate == DeactivateInit /\ [][DeactivateNext]_vars

\* C27: while a user is deactivated, every request that arrives with a valid
\* token of that user is answered 403 by authenticate and its handler does
\* not run, and every login of that user is refused; the user stays
\* deactivated until a toggleUserStatus with isActive=true saves.
C27_DeactivatedIsRejected ==
    [][\A s \in Slots :
          /\ \A k \in UserTokens :
                (/\ authReqs'[s] # authReqs[s]
                 /\ VerifyToken(k) \in 1..Len(users)
                 /\ ~users[VerifyToken(k)].isActive
                 /\ AuthenticateFindById(s, k)) =>
                   authReqs'[s].pc = "done" /\ authReqs'[s].status = 403
          /\ \A n \in {"alice", "bob"} :
                (/\ authReqs'[s] # authReqs[s]
                 /\ ~users[FindUserByUsername(n)].isActive
                 /\ LoginFindByUsernameOrEmail(s, n, TRUE)) =>
                   authReqs'[s].pc = "done" /\ authReqs'[s].status = 401
          /\ \A i \in 1..Len(users) :
                (~users[i].isActive /\ users'[i].isActive) =>
                   \E q \in Slots :
                      /\ authReqs[q].op = "toggleUserStatus" /\ authReqs[q].pc = "save"
                      /\ authReqs[q].id = i /\ authReqs[q].isActive = TRUE
                      /\ authReqs'[q].pc = "done"
          /\ (authReqs[s].op = "toggleUserStatus" /\ authReqs[s].pc = "save"
                 /\ authReqs[s].isActive = FALSE /\ authReqs[s].loaded = TRUE
                 /\ authReqs'[s].pc = "done") =>
                ~users'[authReqs[s].id].isActive]_vars

\* bob is deactivated by a toggleUserStatus answered 200, and his request
\* with token2 and his login have been refused
C27_Witness ==
    /\ ~users[2].isActive
    /\ \E s, q \in Slots :
          /\ authReqs[s].op = "authenticated" /\ authReqs[s].status = 403
          /\ authReqs[s].id = 2
          /\ authReqs[q].op = "login" /\ authReqs[q].status = 401

(***************************************************************************)
(* Specification of the owner-checked AI endpoints                         *)
(***************************************************************************)
\* the requests of this specification arrive one after the other, and each
\* endpoint acts once on the initialized model
Serial == \A q \in Slots : aiReqs[q].pc = "done"

Untouched(op) ==
    /\ Len(aiModels) = 1
    /\ CASE op = "createModelVersion" -> aiModels[1].versions = <<>>
         [] op = "addVisualization" -> aiModels[1].visualizations = 0
         [] OTHER -> TRUE

OwnerNext ==
    \/ \E s \in Slots, u \in AiUsers \cup {None} :
          /\ aiModels = <<>> /\ Serial
          /\ InitializeModelCreate(s, u, "none")
          /\ UNCHANGED <<dsVars, authVars, predVars, httpVars>>
    \/ \E s \in Slots : InitializeModelSave(s) /\ UNCHANGED <<dsVars, authVars, predVars, httpVars>>
    \/ \E s \in Slots, u \in AiUsers :
          Serial /\ Untouched("cloneModelForTransfer") /\ CloneFindById(s, u, 1, None) /\ UNCHANGED <<dsVars, authVars, predVars, httpVars>>
    \/ \E s \in Slots : CloneCreate(s) /\ UNCHANGED <<dsVars, authVars, predVars, httpVars>>
    \/ \E s \in Slots, o \in UpdateOps, u \in AiUsers :
          Serial /\ Untouched(o) /\ OwnerCheckedFindById(s, o, u, 1, TRUE)
             /\ UNCHANGED <<dsVars, authVars, predVars, httpVars>>
    \/ \E s \in Slots : OwnerCheckedUpdate(s) /\ UNCHANGED <<dsVars, authVars, predVars, httpVars>>
    \/ \E s \in Slots, u \in AiUsers :
          Serial /\ Untouched("createModelVersion") /\ CreateModelVersionFindById(s, u, 1, FALSE)
             /\ UNCHANGED <<dsVars, authVars, predVars, httpVars>>
    \/ \E s \in Slots :
          CreateModelVersionCreateVersion(s) /\ UNCHANGED <<dsVars, authVars, predVars, httpVars>>
    \/ \E s \in Slots, u \in AiUsers, i \in 0..1, v \in {None, "true"} :
          Serial /\ ToggleModelVisibilityFindById(s, u, i, v)
             /\ UNCHANGED <<dsVars, authVars, predVars, httpVars>>
    \/ \E s \in Slots :
          ToggleModelVisibilitySave(s) /\ UNCHANGED <<dsVars, authVars, predVars, httpVars>>

SpecOwner == TrainInit /\ [][OwnerNext]_vars

\* a request with its required fields arrives at an owner-checked endpoint
\* and names model 1
OwnerCheckedRequest(s, u) ==
    \/ CloneFindById(s, u, 1, None)
    \/ \E o \in UpdateOps : OwnerCheckedFindById(s, o, u, 1, TRUE)
    \/ CreateModelVersionFindById(s, u, 1, FALSE)
    \/ \E v \in {"true", "false"} : ToggleModelVisibilityFindById(s, u, 1, v)

\* C29: the owner of a model created by initialize is the userId of the
\* request body and is absent when the body has none; on a model without
\* owner, clone, updateArchitecture, updateHyperparameters, addVisualization,
\* createModelVersion and toggleModelVisibility are answered 500 for every
\* requester, never 200 or 403, and leave the record unchanged.
C29_OwnerlessModel ==
    [][\A s \in Slots :
          (aiReqs[s].pc = "done" /\ aiReqs'[s] # aiReqs[s]) =>
             /\ \A u \in AiUsers \cup {None} :
                   InitializeModelCreate(s, u, "none") =>
                      aiModels'[Len(aiModels')].userId = u
             /\ \A u \in AiUsers :
                   (/\ Len(aiModels) >= 1
                    /\ aiModels[1].userId = None
                    /\ OwnerCheckedRequest(s, u)) =>
                      /\ aiReqs'[s].pc = "done" /\ aiReqs'[s].status = 500
                      /\ aiModels' = aiModels]_vars

\* toggleModelVisibility has been answered 500 on the model without owner
C29_Witness ==
    \E s \in Slots :
       /\ aiReqs[s].op = "toggleModelVisibility" /\ aiReqs[s].status = 500
       /\ Len(aiModels) = 1
       /\ aiModels[1].userId = None
       /\ aiModels[1].isPublic = FALSE

(***************************************************************************)
(* Specification of prediction records                                     *)
(***************************************************************************)
RecordNext ==
    \/ \E s \in Slots, f \in {"none", "sequential"} :
          /\ Len(aiModels) < MaxInitialized
          /\ InitializeModelCreate(s, "U1", f)
          /\ UNCHANGED <<dsVars, authVars, predVars, httpVars>>
    \/ \E s \in Slots : InitializeModelSave(s) /\ UNCHANGED <<dsVars, authVars, predVars, httpVars>>
    \/ \E s \in Slots, u \in AiUsers, i \in 0..MaxModels, d \in BOOLEAN :
          PredictFindById(s, u, i, d) /\ UNCHANGED <<dsVars, authVars, predVars, httpVars>>
    \/ \E s \in Slots, ok \in BOOLEAN :
          PredictRun(s, ok) /\ UNCHANGED <<dsVars, authVars, predVars, httpVars>>
    \/ \E s \in Slots : PredictAddPrediction(s) /\ UNCHANGED <<dsVars, authVars, predVars, httpVars>>

SpecRecord == TrainInit /\ [][RecordNext]_vars

\* C24: a predict request appends exactly one prediction record to the named
\* model when it is answered 200 and none when it is answered 400, 404 or
\* 500; with an existing modelId and no live model in the adapter it is
\* answered 500 and the model record is unchanged.
C24_PredictionRecords ==
    [][\A s \in Slots :
          (aiReqs'[s] # aiReqs[s] /\ aiReqs'[s].op = "predict") =>
             /\ aiReqs'[s].pc = "done" => aiReqs'[s].status \in {200, 400, 404, 500}
             /\ IF aiReqs'[s].status = 200
                THEN aiModels' = [aiModels EXCEPT ![aiReqs[s].id].predictions = @ + 1]
                ELSE aiModels' = aiModels
             /\ (aiReqs[s].pc = "predict" /\ aiService.model = NoModel) =>
                   aiReqs'[s].status = 500 /\ aiModels' = aiModels]_vars

\* a predict on the stored model is answered 500 while the adapter has no
\* live model
C24_Witness ==
    \E s \in Slots :
       /\ aiReqs[s].op = "predict" /\ aiReqs[s].status = 500
       /\ Len(aiModels) = 1 /\ aiModels[1].predictions = 0
       /\ aiService.model = NoModel

(***************************************************************************)
(* Specification of the dataset routes                                     *)
(***************************************************************************)
DsInit == DsStart /\ AuthOff /\ AiOff /\ PredOff /\ HttpOff

DsNext ==
    \/ \E s \in Slots, u \in DsUsers, n \in Names, v \in {None} :
          CreateDatasetFindOne(s, u, n, "csv", v, {}) /\ UNCHANGED <<authVars, aiVars, predVars, httpVars>>
    \/ \E s \in Slots : CreateDatasetCreate(s) /\ UNCHANGED <<authVars, aiVars, predVars, httpVars>>
    \/ \E s \in Slots, u \in DsUsers, i \in 1..MaxDatasets,
          n \in Names \cup {None}, v \in {None} :
          UpdateDatasetFindById(s, u, i, n, v) /\ UNCHANGED <<authVars, aiVars, predVars, httpVars>>
    \/ \E s \in Slots : UpdateDatasetFindOne(s) /\ UNCHANGED <<authVars, aiVars, predVars, httpVars>>
    \/ \E s \in Slots : UpdateDatasetSave(s) /\ UNCHANGED <<authVars, aiVars, predVars, httpVars>>
    \/ \E s \in Slots, u \in DsUsers, i \in 1..MaxDatasets :
          DeleteDatasetFindById(s, u, i) /\ UNCHANGED <<authVars, aiVars, predVars, httpVars>>
    \/ \E s \in Slots : DeleteDatasetSave(s) /\ UNCHANGED <<authVars, aiVars, predVars, httpVars>>

SpecDS == DsInit /\ [][DsNext]_vars

(***************************************************************************)
(* Specification of dataset sharing and reading                            *)
(***************************************************************************)
ShareNext ==
    \/ \E s \in Slots, u \in DsUsers, v \in {None, "public"} :
          /\ datasets = <<>>
          /\ CreateDatasetFindOne(s, u, "sales", "csv", v, {})
          /\ UNCHANGED <<authVars, aiVars, predVars, httpVars>>
    \/ \E s \in Slots :
          CreateDatasetCreate(s) /\ UNCHANGED <<authVars, aiVars, predVars, httpVars>>
    \/ \E s \in Slots, u \in DsUsers, i \in 1..MaxDatasets, t \in ShareTargets :
          ShareDatasetFindById(s, u, i, t, "view")
             /\ UNCHANGED <<authVars, aiVars, predVars, httpVars>>
    \/ \E s \in Slots :
          ShareDatasetShareWith(s) /\ UNCHANGED <<authVars, aiVars, predVars, httpVars>>
    \/ \E s \in Slots, u \in DsUsers, i \in 1..MaxDatasets :
          GetDatasetById(s, u, i) /\ UNCHANGED <<authVars, aiVars, predVars, httpVars>>

SpecShare == DsInit /\ [][ShareNext]_vars

\* C11: getDatasetById on an existing dataset answers 200 with the dataset
\* if the requester is its creator, or it is public, or the requester is
\* listed in sharedWith, and answers 403 without data in every other case.
C11_DatasetAccess ==
    [][\A s \in Slots, u \in DsUsers, i \in 1..MaxDatasets :
          (dsReqs'[s] # dsReqs[s] /\ i <= Len(datasets) /\ GetDatasetById(s, u, i)) =>
             IF \/ datasets[i].creator = u
                \/ datasets[i].visibility = "public"
                \/ \E k \in 1..Len(datasets[i].sharedWith) :
                      datasets[i].sharedWith[k].user = u
             THEN dsReqs'[s].status = 200 /\ dsReqs'[s].data = i
             ELSE dsReqs'[s].status = 403 /\ dsReqs'[s].data = NoId]_vars

(***************************************************************************)
(* Specification of dataset requests with and without a name               *)
(***************************************************************************)
ValidateNext ==
    \/ \E s \in Slots, u \in DsUsers, n \in {"sales", None}, v \in {None, "public"} :
          /\ datasets = <<>>
          /\ CreateDatasetFindOne(s, u, n, "csv", v, {})
          /\ UNCHANGED <<authVars, aiVars, predVars, httpVars>>
    \/ \E s \in Slots :
          CreateDatasetCreate(s) /\ UNCHANGED <<authVars, aiVars, predVars, httpVars>>
    \/ \E s \in Slots, u \in DsUsers, i \in 1..MaxDatasets, t \in ShareTargets :
          ShareDatasetFindById(s, u, i, t, "view")
             /\ UNCHANGED <<authVars, aiVars, predVars, httpVars>>
    \/ \E s \in Slots :
          ShareDatasetShareWith(s) /\ UNCHANGED <<authVars, aiVars, predVars, httpVars>>

SpecValidate == DsInit /\ [][ValidateNext]_vars

\* C19: a request that lacks a required field is answered 400 and changes
\* nothing stored; here createDataset without a name.
C19_MissingFieldIs400 ==
    [][\A s \in Slots :
          (/\ dsReqs[s].op = "createDataset" /\ dsReqs[s].pc = "create"
           /\ dsReqs[s].name = None
           /\ dsReqs'[s].pc = "done") =>
             /\ dsReqs'[s].status = 400
             /\ datasets' = datasets]_vars

(***************************************************************************)
(* Specification of dataset listing                                        *)
(***************************************************************************)
Formats == {"csv", "json"}
TagChoices == {"t"}

ListNext ==
    \/ \E s \in Slots, u \in DsUsers, v \in Visibilities :
          /\ datasets = <<>> /\ DsCreating = 0
          /\ CreateDatasetFindOne(s, u, "sales", "csv", v, TagChoices)
          /\ UNCHANGED <<authVars, aiVars, predVars, httpVars>>
    \/ \E s \in Slots :
          CreateDatasetCreate(s) /\ UNCHANGED <<authVars, aiVars, predVars, httpVars>>
    \/ \E s \in Slots, u \in DsUsers, i \in 1..MaxDatasets :
          ShareDatasetFindById(s, u, i, "U3", "view")
             /\ UNCHANGED <<authVars, aiVars, predVars, httpVars>>
    \/ \E s \in Slots :
          ShareDatasetShareWith(s) /\ UNCHANGED <<authVars, aiVars, predVars, httpVars>>
    \/ \E s \in Slots, u \in DsUsers, i \in 1..MaxDatasets, v \in {None, "public"} :
          UpdateDatasetFindById(s, u, i, None, v)
             /\ UNCHANGED <<authVars, aiVars, predVars, httpVars>>
    \/ \E s \in Slots : UpdateDatasetSave(s) /\ UNCHANGED <<authVars, aiVars, predVars, httpVars>>
    \/ \E s \in Slots, u \in DsUsers, i \in 1..MaxDatasets :
          DeleteDatasetFindById(s, u, i) /\ UNCHANGED <<authVars, aiVars, predVars, httpVars>>
    \/ \E s \in Slots : DeleteDatasetSave(s) /\ UNCHANGED <<authVars, aiVars, predVars, httpVars>>
    \/ \E s \in Slots, u \in DsUsers, f \in Formats \cup {None},
          t \in TagChoices \cup {None}, v \in Visibilities \cup {None} :
          /\ \A q \in Slots : dsReqs[q].pc # "countDocuments"
          /\ GetDatasetsFind(s, u, f, t, v)
             /\ UNCHANGED <<authVars, aiVars, predVars, httpVars>>
    \/ \E s \in Slots :
          GetDatasetsCountDocuments(s) /\ UNCHANGED <<authVars, aiVars, predVars, httpVars>>

SpecList == DsInit /\ [][ListNext]_vars

\* a getDatasets request reads its page in this step
GetDatasetsReads(s) ==
    /\ dsReqs[s].pc = "done"
    /\ dsReqs'[s].op = "getDatasets" /\ dsReqs'[s].pc = "countDocuments"

\* C22: deleteDataset keeps the record and only sets isActive to false, no
\* operation sets isActive back to true, and a getDatasets call never reads
\* an inactive dataset, whoever asks and whatever the filters.
C22_SoftDelete ==
    [][/\ Len(datasets') >= Len(datasets)
       /\ \A i \in 1..Len(datasets) :
             /\ datasets'[i].creator = datasets[i].creator
             /\ datasets[i].isActive = FALSE => datasets'[i].isActive = FALSE
       /\ \A s \in Slots :
             (dsReqs[s].op = "deleteDataset" /\ dsReqs[s].pc = "save"
                 /\ dsReqs'[s].pc = "done") =>
                /\ datasets' = [datasets EXCEPT ![dsReqs[s].id].isActive = FALSE]
                /\ dsReqs'[s].status = 200
       /\ \A s \in Slots :
             GetDatasetsReads(s) =>
                \A i \in dsReqs'[s].list : datasets[i].isActive = TRUE]_vars

\* the creator lists without a filter after the delete and gets nothing
C22_Witness ==
    \E s \in Slots :
       /\ dsReqs[s].op = "getDatasets" /\ dsReqs[s].pc = "countDocuments"
       /\ dsReqs[s].visibility = None
       /\ dsReqs[s].list = {}
       /\ Len(datasets) = 1
       /\ datasets[1].creator = dsReqs[s].user
       /\ datasets[1].isActive = FALSE
       /\ \E q \in Slots : dsReqs[q].op = "deleteDataset" /\ dsReqs[q].status = 200

\* the requester is listed in sharedWith
SharedWithUser(d, user) ==
    \E k \in 1..Len(d.sharedWith) : d.sharedWith[k].user = user

\* C25: for every combination of the format, tag and visibility filters,
\* every dataset getDatasets returns is active and is created by the
\* requester, public or shared with the requester; with visibility=private
\* a dataset of another creator is returned only if shared with the
\* requester.
C25_ListedAreAccessible ==
    [][\A s \in Slots :
          GetDatasetsReads(s) =>
             \A i \in dsReqs'[s].list :
                LET d == datasets[i]
                    u == dsReqs'[s].user
                IN  /\ d.isActive = TRUE
                    /\ d.creator = u \/ d.visibility = "public" \/ SharedWithUser(d, u)
                    /\ (dsReqs'[s].visibility = "private" /\ d.creator # u) =>
                          SharedWithUser(d, u)]_vars

\* a dataset of another creator, shared with the requester, is listed under
\* visibility=private
C25_Witness ==
    \E s \in Slots :
       /\ dsReqs[s].op = "getDatasets" /\ dsReqs[s].pc = "countDocuments"
       /\ dsReqs[s].visibility = "private"
       /\ dsReqs[s].list = {1}
       /\ Len(datasets) = 1
       /\ datasets[1].creator # dsReqs[s].user
       /\ datasets[1].visibility = "public"
       /\ SharedWithUser(datasets[1], dsReqs[s].user)

(***************************************************************************)
(* Specification of dataset statistics and metadata                        *)
(***************************************************************************)
AccessLevels == {"view", "edit", "admin"}
FieldValues == {None, "null", "a"}
StatisticsBodies ==
    {[summary |-> a, distributions |-> b, correlations |-> None] :
        a \in FieldValues, b \in {None, "b"}}
MetadataBodies ==
    {[size |-> a, recordCount |-> None, features |-> b, dimensions |-> None,
      dataTypes |-> None] : a \in {None, "0"}, b \in {None, "f"}}

StatsNext ==
    \/ \E s \in Slots :
          /\ datasets = <<>> /\ DsCreating = 0
          /\ CreateDatasetFindOne(s, "U2", "sales", "csv", None, {})
          /\ UNCHANGED <<authVars, aiVars, predVars, httpVars>>
    \/ \E s \in Slots :
          CreateDatasetCreate(s) /\ UNCHANGED <<authVars, aiVars, predVars, httpVars>>
    \/ \E s \in Slots, i \in 1..MaxDatasets, a \in AccessLevels :
          ShareDatasetFindById(s, "U2", i, "U3", a)
             /\ UNCHANGED <<authVars, aiVars, predVars, httpVars>>
    \/ \E s \in Slots :
          ShareDatasetShareWith(s) /\ UNCHANGED <<authVars, aiVars, predVars, httpVars>>
    \/ \E s \in Slots, u \in DsUsers, i \in 1..MaxDatasets, b \in StatisticsBodies :
          UpdateStatisticsFindById(s, u, i, b)
             /\ UNCHANGED <<authVars, aiVars, predVars, httpVars>>
    \/ \E s \in Slots :
          UpdateStatisticsSave(s) /\ UNCHANGED <<authVars, aiVars, predVars, httpVars>>
    \/ \E s \in Slots, u \in DsUsers, i \in 1..MaxDatasets, b \in MetadataBodies :
          UpdateMetadataFindById(s, u, i, b)
             /\ UNCHANGED <<authVars, aiVars, predVars, httpVars>>
    \/ \E s \in Slots :
          UpdateMetadataSave(s) /\ UNCHANGED <<authVars, aiVars, predVars, httpVars>>

SpecStats == DsInit /\ [][StatsNext]_vars

\* C26: updateStatistics and updateMetadata answer 200 only for the creator
\* or a user whose sharedWith entry has accessLevel edit or admin, answer 403
\* and leave the dataset unchanged for a user with a view entry or none, and
\* on success each supplied field replaces the stored one while each omitted
\* field keeps its stored value.
C26_EditAccessAndFields ==
    [][\A s \in Slots :
          /\ \A u \in DsUsers, i \in 1..Len(datasets) :
                (/\ dsReqs'[s] # dsReqs[s]
                 /\ \/ \E b \in StatisticsBodies : UpdateStatisticsFindById(s, u, i, b)
                    \/ \E b \in MetadataBodies : UpdateMetadataFindById(s, u, i, b)) =>
                   IF HasEditAccess(datasets[i], u)
                   THEN dsReqs'[s].pc = "save"
                   ELSE dsReqs'[s].status = 403 /\ datasets' = datasets
          /\ (dsReqs[s].pc = "save" /\ dsReqs'[s].status = 200
                 /\ dsReqs[s].op \in {"updateStatistics", "updateMetadata"}) =>
                LET stored == IF dsReqs[s].op = "updateStatistics"
                              THEN datasets[dsReqs[s].id].statistics
                              ELSE datasets[dsReqs[s].id].metadata
                    saved == IF dsReqs[s].op = "updateStatistics"
                             THEN datasets'[dsReqs[s].id].statistics
                             ELSE datasets'[dsReqs[s].id].metadata
                    body == dsReqs[s].body
                IN  \A f \in DOMAIN body :
                       saved[f] = IF body[f] # None THEN body[f] ELSE stored[f]]_vars

(***************************************************************************)
(* Specification of the order of checks in owner-checked handlers          *)
(***************************************************************************)
StepNames == {None, "normalize"}

ChecksInit == DsStart /\ AiStart /\ AuthOff /\ PredOff /\ HttpOff

ChecksNext ==
    \/ \E s \in Slots :
          /\ datasets = <<>> /\ DsCreating = 0
          /\ CreateDatasetFindOne(s, "U2", "sales", "csv", None, {})
          /\ UNCHANGED <<authVars, aiVars, predVars, httpVars>>
    \/ \E s \in Slots :
          CreateDatasetCreate(s) /\ UNCHANGED <<authVars, aiVars, predVars, httpVars>>
    \/ \E s \in Slots, u \in DsUsers, i \in 1..MaxDatasets, n \in StepNames :
          AddPreprocessingStepFindById(s, u, i, n)
             /\ UNCHANGED <<authVars, aiVars, predVars, httpVars>>
    \/ \E s \in Slots, a \in BOOLEAN :
          AddPreprocessingStepAdd(s, a) /\ UNCHANGED <<authVars, aiVars, predVars, httpVars>>
    \/ \E s \in Slots :
          /\ aiModels = <<>> /\ \A q \in Slots : aiReqs[q].pc = "done"
          /\ InitializeModelCreate(s, "U2", "none")
          /\ UNCHANGED <<dsVars, authVars, predVars, httpVars>>
    \/ \E s \in Slots : InitializeModelSave(s) /\ UNCHANGED <<dsVars, authVars, predVars, httpVars>>
    \/ \E s \in Slots, u \in AiUsers, i \in 0..MaxModels :
          CreateModelVersionFindById(s, u, i, FALSE)
             /\ UNCHANGED <<dsVars, authVars, predVars, httpVars>>
    \/ \E s \in Slots :
          CreateModelVersionCreateVersion(s) /\ UNCHANGED <<dsVars, authVars, predVars, httpVars>>
    \/ \E s \in Slots, u \in AiUsers, i \in 0..MaxModels, v \in OptionalBooleans :
          ToggleModelVisibilityFindById(s, u, i, v)
             /\ UNCHANGED <<dsVars, authVars, predVars, httpVars>>
    \/ \E s \in Slots :
          ToggleModelVisibilitySave(s) /\ UNCHANGED <<dsVars, authVars, predVars, httpVars>>

SpecChecks == ChecksInit /\ [][ChecksNext]_vars

\* the answer the order validation, lookup, ownership gives: the status of the
\* first failing check, 0 when all pass and the handler goes on
FirstFailing(valid, found, owner) ==
    IF ~valid THEN 400 ELSE IF ~found THEN 404 ELSE IF ~owner THEN 403 ELSE 0

\* C23: in createModelVersion, toggleModelVisibility and addPreprocessingStep
\* the checks run in the order required-field validation (400), lookup (404),
\* ownership (403), a request failing several checks gets the status of the
\* first failing one, and a request answered 400, 404 or 403 changes nothing.
C23_OrderOfChecks ==
    [][\A s \in Slots :
          /\ \A u \in AiUsers, i \in 0..MaxModels :
                (/\ aiReqs'[s] # aiReqs[s]
                 /\ CreateModelVersionFindById(s, u, i, FALSE)) =>
                   aiReqs'[s].status =
                      FirstFailing(i # NoId, ModelExists(i),
                                   ModelExists(i) /\ aiModels[i].userId = u)
          /\ \A u \in AiUsers, i \in 0..MaxModels, v \in OptionalBooleans :
                (/\ aiReqs'[s] # aiReqs[s]
                 /\ ToggleModelVisibilityFindById(s, u, i, v)) =>
                   aiReqs'[s].status =
                      FirstFailing(i # NoId /\ v # None, ModelExists(i),
                                   ModelExists(i) /\ aiModels[i].userId = u)
          /\ \A u \in DsUsers, i \in 1..MaxDatasets, n \in StepNames :
                (/\ dsReqs'[s] # dsReqs[s]
                 /\ AddPreprocessingStepFindById(s, u, i, n)) =>
                   dsReqs'[s].status =
                      FirstFailing(n # None, i <= Len(datasets),
                                   i <= Len(datasets) /\ datasets[i].creator = u)
          /\ (aiReqs'[s] # aiReqs[s] /\ aiReqs'[s].status \in {400, 404, 403}) =>
                aiModels' = aiModels /\ aiService' = aiService
          /\ (dsReqs'[s] # dsReqs[s] /\ dsReqs'[s].status \in {400, 404, 403}) =>
                datasets' = datasets]_vars

(***************************************************************************)
(* Specification of dataset versions                                       *)
(***************************************************************************)
DsVersionNext ==
    \/ \E s \in Slots, u \in DsUsers :
          /\ datasets = <<>>
          /\ CreateDatasetFindOne(s, u, "sales", "csv", None, {})
          /\ UNCHANGED <<authVars, aiVars, predVars, httpVars>>
    \/ \E s \in Slots :
          CreateDatasetCreate(s) /\ UNCHANGED <<authVars, aiVars, predVars, httpVars>>
    \/ \E s \in Slots, u \in DsUsers, i \in 1..MaxDatasets :
          AddDatasetVersionFindById(s, u, i)
             /\ UNCHANGED <<authVars, aiVars, predVars, httpVars>>
    \/ \E s \in Slots :
          AddDatasetVersionAddVersion(s) /\ UNCHANGED <<authVars, aiVars, predVars, httpVars>>

SpecDsVersion == DsInit /\ [][DsVersionNext]_vars

\* C21: under any interleaving of addDatasetVersion requests on a dataset the
\* suffixes n of the version file names <base>_v<n><ext> start at 1 and
\* strictly increase in the order the versions are appended, so the file
\* names are pairwise distinct.
C21_VersionFileNames ==
    \A i \in 1..Len(datasets) :
       LET versions == datasets[i].versions IN
       /\ Len(versions) > 0 => versions[1].fileName = 1
       /\ \A j, k \in 1..Len(versions) : j < k => versions[j].fileName < versions[k].fileName

(***************************************************************************)
(* Claims on datasets                                                      *)
(***************************************************************************)
ActiveNameTaken(creator, name) ==
    \E i \in 1..Len(datasets) :
        datasets[i].isActive /\ datasets[i].creator = creator /\ datasets[i].name = name

HasNoDatasetNamed(creator, name) ==
    \A i \in 1..Len(datasets) :
        datasets[i].creator = creator => datasets[i].name # name

\* C2: a createDataset whose name is used by an active dataset of the same
\* creator is answered 400 at the duplicate check and the collection is left
\* as it was; a createDataset for a name that only other creators use (the
\* requester has no dataset of that name) passes the check, and its create
\* step answers 201 and appends exactly one document, with that name and
\* creator.
C2_DuplicateNameRejected ==
    [][\A s \in Slots :
        (dsReqs'[s] # dsReqs[s] /\ dsReqs'[s].op = "createDataset") =>
        /\ \A u \in DsUsers, n \in Names :
              CreateDatasetFindOne(s, u, n, "csv", None, {}) =>
                /\ ActiveNameTaken(u, n) =>
                      /\ dsReqs'[s].pc = "done" /\ dsReqs'[s].status = 400
                      /\ datasets' = datasets
                /\ (HasNoDatasetNamed(u, n) /\ \E o \in DsUsers \ {u} : ActiveNameTaken(o, n)) =>
                      /\ dsReqs'[s].pc = "create"
                      /\ dsReqs'[s].user = u /\ dsReqs'[s].name = n
        /\ CreateDatasetCreate(s) =>
              /\ dsReqs'[s].pc = "done" /\ dsReqs'[s].status = 201
              /\ Len(datasets') = Len(datasets) + 1
              /\ SubSeq(datasets', 1, Len(datasets)) = datasets
              /\ datasets'[Len(datasets')].name = dsReqs[s].name
              /\ datasets'[Len(datasets')].creator = dsReqs[s].user
              /\ datasets'[Len(datasets')].isActive
      ]_vars

\* scenario B has happened: one createDataset was answered 400, another 201,
\* and two creators each hold an active dataset of the same name
C2_Witness ==
    /\ \E s \in Slots : dsReqs[s].op = "createDataset" /\ dsReqs[s].status = 400
    /\ \E s \in Slots : dsReqs[s].op = "createDataset" /\ dsReqs[s].status = 201
    /\ \E i, j \in 1..Len(datasets) :
          /\ datasets[i].creator # datasets[j].creator
          /\ datasets[i].name = datasets[j].name
          /\ datasets[i].isActive /\ datasets[j].isActive

\* C3: no two active datasets of the same creator have the same name.
C3_UniqueActiveNames ==
    \A i, j \in 1..Len(datasets) :
        (/\ i # j
         /\ datasets[i].isActive /\ datasets[j].isActive
         /\ datasets[i].creator = datasets[j].creator)
        => datasets[i].name # datasets[j].name

(***************************************************************************)
(* Calls of the adapter's methods                                          *)
(***************************************************************************)
\* a call that has returned result or thrown
Returned(r, result) == [AiIdle EXCEPT !.op = r.op, !.result = result]

\* a call of loadModel that has returned result; arg keeps how the body of
\* the try block ended: "true" at its end, "throw" at a failure
LoadModelReturned(r, outcome, result) == [Returned(r, result) EXCEPT !.arg = outcome]

\* an entry of architecture.layers: a type and the entry's own config.inputShape
LayerEntry(type, inputShape) == [type |-> type, inputShape |-> inputShape]

\* the architectures given to loadModel: entries of supported and unsupported
\* type in either order, with or without an inputShape of the architecture
Architectures ==
    {[null |-> FALSE, layers |-> l, inputShape |-> i] :
        l \in {<<LayerEntry("dense", None)>>,
               <<LayerEntry("dense", None), LayerEntry("attention", None)>>,
               <<LayerEntry("attention", None), LayerEntry("dense", "own")>>},
        i \in {None, "arch"}}

\* the hyperparameter objects given to the adapter
HyperparameterObjects ==
    [optimizer : {Absent, "sgd", "rmsprop"}, learningRate : {Absent, "fast"}]

\* the paths of the model files
StoredPaths == DOMAIN StoredModels

\* outputLayers as given to setupTransferLearning; missing is the same as []
OutputLayerChoices == {<<>>, <<1>>}

\* modelConfig = {}
NoConfig ==
    [architecture |-> NoArchitecture, hyperparameters |-> NoHyperparameters,
     baseModelPath |-> None, transferLearning |-> FALSE,
     freezeBaseLayers |-> None, outputLayers |-> <<>>]

\* the modelConfig objects that describe an architecture
ArchitectureConfigs ==
    {[NoConfig EXCEPT !.architecture = a, !.hyperparameters = h] :
        a \in Architectures,
        h \in {NoHyperparameters, [null |-> FALSE, keys |-> [EmptyObject EXCEPT !.optimizer = "sgd"]]}}

\* the modelConfig objects that ask for transfer learning
TransferConfigs ==
    {[NoConfig EXCEPT !.baseModelPath = b, !.transferLearning = TRUE,
                      !.freezeBaseLayers = f, !.outputLayers = o] :
        b \in StoredPaths, f \in OptionalBooleans, o \in OutputLayerChoices}

\* loadModel up to its first await or, in the modes without one, to its return
LoadModel(s, modelPath, modelConfig, fail) ==
    /\ AiFree(s)
    /\ LET reset == [aiService EXCEPT !.isTransferLearning = FALSE, !.frozenLayers = <<>>]
           call == [AiIdle EXCEPT !.op = "loadModel"]
       IN
       IF modelPath # None
       THEN /\ aiService' = reset
            /\ aiReqs' = [aiReqs EXCEPT ![s] =
                  [call EXCEPT !.pc = "loadLayersModel", !.path = modelPath]]
       ELSE IF ~modelConfig.architecture.null
       THEN LET created == CreateModelFromArchitecture(
                    [reset EXCEPT !.modelArchitecture = modelConfig.architecture,
                                  !.hyperparameters =
                                      [null |-> FALSE, keys |-> OrEmpty(modelConfig.hyperparameters)]],
                    fail)
            IN /\ aiService' = created.svc
               /\ aiReqs' = [aiReqs EXCEPT ![s] =
                     LoadModelReturned(call, created.outcome, Catch(created.outcome))]
       ELSE IF modelConfig.baseModelPath # None /\ modelConfig.transferLearning
       THEN /\ aiService' = reset
            /\ aiReqs' = [aiReqs EXCEPT ![s] =
                  [call EXCEPT !.pc = "transferBaseModel", !.path = modelConfig.baseModelPath,
                               !.arg = [freezeBaseLayers |-> modelConfig.freezeBaseLayers,
                                        outputLayers |-> modelConfig.outputLayers]]]
       ELSE LET load == LoadDefaultModel(aiService, fail) IN
            /\ aiService' = load.svc
            /\ aiReqs' = [aiReqs EXCEPT ![s] =
                  LoadModelReturned(call, IF load.ok THEN "true" ELSE "throw",
                                    IF load.ok THEN "true" ELSE "false")]
    /\ UNCHANGED aiModels

\* loadModel(modelPath) once tf.loadLayersModel has resolved or rejected
LoadModelLoaded(s, ok) ==
    /\ aiReqs[s].op = "loadModel" /\ aiReqs[s].pc = "loadLayersModel"
    /\ aiService' = IF ok THEN [aiService EXCEPT !.model = LoadLayersModel(aiReqs[s].path)]
                    ELSE aiService
    /\ aiReqs' = [aiReqs EXCEPT ![s] =
          LoadModelReturned(@, IF ok THEN "true" ELSE "throw",
                            Catch(IF ok THEN "true" ELSE "throw"))]
    /\ UNCHANGED aiModels

\* frozenLayers is let grow to this length before a further direct call of
\* setupTransferLearning
MaxFrozen == 2

\* setupTransferLearning called directly, up to its await
SetupTransferLearning(s, baseModelPath, freezeBaseLayers, outputLayers) ==
    /\ AiFree(s)
    /\ Len(aiService.frozenLayers) <= MaxFrozen
    /\ aiReqs' = [aiReqs EXCEPT ![s] =
          [AiIdle EXCEPT !.op = "setupTransferLearning", !.pc = "transferBaseModel",
                         !.path = baseModelPath,
                         !.arg = [freezeBaseLayers |-> freezeBaseLayers,
                                  outputLayers |-> outputLayers]]]
    /\ UNCHANGED <<aiModels, aiService>>

\* setupTransferLearning once tf.loadLayersModel has resolved or rejected, to
\* its return and, when loadModel called it, to loadModel's return
SetupTransferLearningResume(s, ok, fail) ==
    /\ aiReqs[s].pc = "transferBaseModel"
    /\ LET r == aiReqs[s]
           setup == IF ok
                    THEN SetupTransferLearningLoaded(aiService, LoadLayersModel(r.path),
                             r.arg.freezeBaseLayers, r.arg.outputLayers, fail)
                    ELSE [svc |-> aiService, outcome |-> "throw"]
       IN /\ aiService' = setup.svc
          /\ aiReqs' = [aiReqs EXCEPT ![s] =
                IF r.op = "loadModel"
                THEN LoadModelReturned(r, setup.outcome, Catch(setup.outcome))
                ELSE Returned(r, setup.outcome)]
    /\ UNCHANGED aiModels

\* trainModel up to "await this.model.fit"
CallTrainModel(s, tensorsOk) ==
    /\ AiFree(s)
    /\ LET start == ServiceTrainStart(aiService, tensorsOk)
           call == [AiIdle EXCEPT !.op = "trainModel"]
       IN /\ aiService' = start.svc
          /\ aiReqs' = [aiReqs EXCEPT ![s] =
                IF start.threw THEN Returned(call, "throw") ELSE [call EXCEPT !.pc = "fit"]]
    /\ UNCHANGED aiModels

\* trainModel once model.fit has resolved or rejected
CallTrainModelFit(s, ok) ==
    /\ aiReqs[s].op = "trainModel" /\ aiReqs[s].pc = "fit"
    /\ aiReqs' = [aiReqs EXCEPT ![s] = Returned(@, IF ok THEN "history" ELSE "throw")]
    /\ UNCHANGED <<aiModels, aiService>>

\* predict up to "await this.model.predict"
CallPredict(s, tensorOk) ==
    /\ AiFree(s)
    /\ LET call == [AiIdle EXCEPT !.op = "predict"] IN
       aiReqs' = [aiReqs EXCEPT ![s] =
          IF ServicePredictThrows(aiService, tensorOk) THEN Returned(call, "throw")
          ELSE [call EXCEPT !.pc = "predict"]]
    /\ UNCHANGED <<aiModels, aiService>>

\* predict once model.predict and predictions.array() have resolved or rejected
CallPredictArray(s, ok) ==
    /\ aiReqs[s].op = "predict" /\ aiReqs[s].pc = "predict"
    /\ aiReqs' = [aiReqs EXCEPT ![s] = Returned(@, IF ok THEN "predictions" ELSE "throw")]
    /\ UNCHANGED <<aiModels, aiService>>

\* saveModel up to "await this.model.save"; what is thrown before it is
\* caught and makes the call return false
CallSaveModel(s, path) ==
    /\ AiFree(s)
    /\ LET resolved == SaveModelPath(aiService, path)
           call == [AiIdle EXCEPT !.op = "saveModel"]
       IN aiReqs' = [aiReqs EXCEPT ![s] =
             IF resolved.threw THEN Returned(call, "false")
             ELSE [call EXCEPT !.pc = "save", !.path = resolved.path]]
    /\ UNCHANGED <<aiModels, aiService>>

\* saveModel once model.save has resolved or rejected
CallSaveModelSave(s, ok) ==
    /\ aiReqs[s].op = "saveModel" /\ aiReqs[s].pc = "save"
    /\ aiReqs' = [aiReqs EXCEPT ![s] = Returned(@, IF ok THEN "true" ELSE "false")]
    /\ UNCHANGED <<aiModels, aiService>>

\* updateHyperparameters, which has no await
CallUpdateHyperparameters(s, hyperparameters, compileOk) ==
    /\ AiFree(s)
    /\ LET update == UpdateHyperparameters(aiService, hyperparameters, compileOk) IN
        /\ aiService' = update.svc
        /\ aiReqs' = [aiReqs EXCEPT ![s] =
              Returned([AiIdle EXCEPT !.op = "updateHyperparameters"], update.outcome)]
    /\ UNCHANGED aiModels

(***************************************************************************)
(* Specification of loadModel and setupTransferLearning                    *)
(***************************************************************************)
LoadInit == AiStart /\ DsOff /\ AuthOff /\ PredOff /\ HttpOff

LoadNext ==
    \/ \E s \in Slots, p \in StoredPaths :
          LoadModel(s, p, NoConfig, "none") /\ UNCHANGED <<dsVars, authVars, predVars, httpVars>>
    \/ \E s \in Slots, c \in ArchitectureConfigs, f \in LoadFailures :
          LoadModel(s, None, c, f) /\ UNCHANGED <<dsVars, authVars, predVars, httpVars>>
    \/ \E s \in Slots, c \in TransferConfigs :
          LoadModel(s, None, c, "none") /\ UNCHANGED <<dsVars, authVars, predVars, httpVars>>
    \/ \E s \in Slots, f \in LoadFailures :
          LoadModel(s, None, NoConfig, f) /\ UNCHANGED <<dsVars, authVars, predVars, httpVars>>
    \/ \E s \in Slots, ok \in BOOLEAN :
          LoadModelLoaded(s, ok) /\ UNCHANGED <<dsVars, authVars, predVars, httpVars>>
    \/ \E s \in Slots, ok \in BOOLEAN, f \in {"none", "sequential"} :
          SetupTransferLearningResume(s, ok, f) /\ UNCHANGED <<dsVars, authVars, predVars, httpVars>>

SpecLoad == LoadInit /\ [][LoadNext]_vars

(***************************************************************************)
(* Claims on loadModel                                                     *)
(***************************************************************************)
\* C12: loadModel never throws in any of its four modes: it returns true when
\* nothing failed and false on every failure, the failures inside
\* createModelFromArchitecture and setupTransferLearning included.
C12_LoadModelNeverThrows ==
    \A s \in Slots :
       (aiReqs[s].op = "loadModel" /\ aiReqs[s].pc = "done") =>
          /\ aiReqs[s].result \in {"true", "false"}
          /\ aiReqs[s].result = "true" <=> aiReqs[s].arg = "true"
          /\ aiReqs[s].result = "false" <=> aiReqs[s].arg = "throw"

\* loadModel has returned false for a failure inside setupTransferLearning
C12_Witness ==
    \E s \in Slots :
       /\ aiReqs[s].op = "loadModel" /\ aiReqs[s].pc = "done"
       /\ aiReqs[s].result = "false"
       /\ aiService.isTransferLearning

\* what the adapter holds about its model
Described(svc) ==
    <<svc.model, svc.isTransferLearning, svc.frozenLayers, svc.modelArchitecture,
      svc.hyperparameters>>

\* C30: when loadModel returns false the adapter is left as it was before the
\* call: the live model, the transfer-learning flag, the frozen-layer list,
\* the stored architecture and the stored hyperparameters are unchanged;
\* stated for the calls that return within one step, and for the last step
\* of the others.
C30_FailedLoadKeepsAdapter ==
    [][\A s \in Slots :
          (/\ aiReqs'[s] # aiReqs[s]
           /\ aiReqs'[s].op = "loadModel" /\ aiReqs'[s].pc = "done"
           /\ aiReqs'[s].result = "false") =>
             Described(aiService') = Described(aiService)]_vars

\* a call of loadModel returns in this step
LoadModelReturns(s) ==
    /\ aiReqs'[s] # aiReqs[s]
    /\ aiReqs'[s].op = "loadModel" /\ aiReqs'[s].pc = "done"

\* C13: after a successful loadModel nothing in memory is left of the model
\* before it: a model read from a file, built by transfer or built as the
\* fallback has no stored architecture and no stored hyperparameters, a model
\* that is not a transfer model has the transfer flag off and no frozen
\* layers, and no Registry record is changed.
C13_OnlyNewModelInMemory ==
    [][\A s \in Slots :
          (LoadModelReturns(s) /\ aiReqs'[s].result = "true") =>
             /\ aiService'.model.live
             /\ aiModels' = aiModels
             /\ (\/ aiReqs[s].pc \in {"loadLayersModel", "transferBaseModel"}
                 \/ LoadModel(s, None, NoConfig, "none")) =>
                   /\ aiService'.modelArchitecture = NoArchitecture
                   /\ OrEmpty(aiService'.hyperparameters) = EmptyObject
             /\ aiReqs[s].pc # "transferBaseModel" =>
                   /\ ~aiService'.isTransferLearning
                   /\ aiService'.frozenLayers = <<>>]_vars

(***************************************************************************)
(* Specification of transfer learning set up through loadModel and directly *)
(***************************************************************************)
TransferNext ==
    \/ \E s \in Slots, c \in TransferConfigs :
          LoadModel(s, None, c, "none") /\ UNCHANGED <<dsVars, authVars, predVars, httpVars>>
    \/ \E s \in Slots, b \in StoredPaths, f \in OptionalBooleans, o \in OutputLayerChoices :
          SetupTransferLearning(s, b, f, o) /\ UNCHANGED <<dsVars, authVars, predVars, httpVars>>
    \/ \E s \in Slots, ok \in BOOLEAN, f \in {"none", "sequential"} :
          SetupTransferLearningResume(s, ok, f) /\ UNCHANGED <<dsVars, authVars, predVars, httpVars>>

SpecTransfer == LoadInit /\ [][TransferNext]_vars

\* the indices 0 .. n-1 in order
Indices(n) == [k \in 1..n |-> k - 1]

\* the base layer indices a transfer set up is to keep: all but those listed
\* in outputLayers, all but the last when none is listed
KeptIndices(n, outputLayers) ==
    SelectSeq(Indices(n),
              LAMBDA i : IF Len(outputLayers) = 0 THEN i # n - 1
                         ELSE \A k \in 1..Len(outputLayers) : outputLayers[k] # i)

\* C17: after every successful setupTransferLearning the new model holds
\* exactly the base layers whose index is not in outputLayers (not the last
\* index when outputLayers is empty or missing), in base order; with
\* freezeBaseLayers true or undefined all of them are non-trainable and
\* frozenLayers is exactly the list of their base indices, with
\* freezeBaseLayers false frozenLayers is empty.
C17_TransferLayers ==
    [][\A s \in Slots :
          (/\ aiReqs[s].pc = "transferBaseModel"
           /\ aiReqs'[s].pc = "done" /\ aiReqs'[s].result = "true") =>
             LET base == StoredModels[aiReqs[s].path]
                 kept == KeptIndices(Len(base), aiReqs[s].arg.outputLayers)
                 new == aiService'.model.layers
             IN /\ Len(new) = Len(kept)
                /\ \A k \in 1..Len(kept) : new[k].name = base[kept[k] + 1].name
                /\ IF aiReqs[s].arg.freezeBaseLayers # "false"
                   THEN /\ \A k \in 1..Len(new) : ~new[k].trainable
                        /\ aiService'.frozenLayers = kept
                   ELSE aiService'.frozenLayers = <<>>]_vars

(***************************************************************************)
(* Claims on models built from an architecture                             *)
(***************************************************************************)
\* the types of the entries of supported type, in order
SupportedEntryTypes(layers) ==
    LET supported == SelectSeq(layers, LAMBDA l : l.type \in SupportedTypes)
    IN [k \in 1..Len(supported) |-> supported[k].type]

\* C18: a model built from an architecture has exactly the entries of
\* supported type as its layers, in order; an entry of unsupported type is
\* skipped without making loadModel fail; and the architecture's inputShape
\* is on the first layer of the model wherever the unsupported entries are,
\* index 0 included.
C18_ArchitectureLayers ==
    [][\A s \in Slots, c \in ArchitectureConfigs :
          (aiReqs'[s] # aiReqs[s] /\ LoadModel(s, None, c, "none")) =>
             LET new == aiService'.model.layers IN
             /\ aiReqs'[s].result = "true"
             /\ [k \in 1..Len(new) |-> new[k].type] = SupportedEntryTypes(c.architecture.layers)
             /\ (Len(new) > 0 /\ c.architecture.inputShape # None) =>
                   new[1].inputShape = c.architecture.inputShape]_vars

(***************************************************************************)
(* Specification of the adapter's calls on an empty and a loaded adapter   *)
(***************************************************************************)
AdapterNext ==
    \/ \E s \in Slots, f \in LoadFailures :
          LoadModel(s, None, NoConfig, f) /\ UNCHANGED <<dsVars, authVars, predVars, httpVars>>
    \/ \E s \in Slots :
          LoadModel(s, "base", NoConfig, "none") /\ UNCHANGED <<dsVars, authVars, predVars, httpVars>>
    \/ \E s \in Slots, ok \in BOOLEAN :
          LoadModelLoaded(s, ok) /\ UNCHANGED <<dsVars, authVars, predVars, httpVars>>
    \/ \E s \in Slots, ok \in BOOLEAN :
          CallTrainModel(s, ok) /\ UNCHANGED <<dsVars, authVars, predVars, httpVars>>
    \/ \E s \in Slots, ok \in BOOLEAN :
          CallTrainModelFit(s, ok) /\ UNCHANGED <<dsVars, authVars, predVars, httpVars>>
    \/ \E s \in Slots, ok \in BOOLEAN :
          CallPredict(s, ok) /\ UNCHANGED <<dsVars, authVars, predVars, httpVars>>
    \/ \E s \in Slots, ok \in BOOLEAN :
          CallPredictArray(s, ok) /\ UNCHANGED <<dsVars, authVars, predVars, httpVars>>
    \/ \E s \in Slots, p \in SavePaths :
          CallSaveModel(s, p) /\ UNCHANGED <<dsVars, authVars, predVars, httpVars>>
    \/ \E s \in Slots, ok \in BOOLEAN :
          CallSaveModelSave(s, ok) /\ UNCHANGED <<dsVars, authVars, predVars, httpVars>>
    \/ \E s \in Slots, h \in HyperparameterObjects, ok \in BOOLEAN :
          CallUpdateHyperparameters(s, h, ok) /\ UNCHANGED <<dsVars, authVars, predVars, httpVars>>

SpecAdapter == LoadInit /\ [][AdapterNext]_vars

(***************************************************************************)
(* Claims on the adapter's calls                                           *)
(***************************************************************************)
\* the call in slot s starts in this step
CallStarts(s, op) ==
    /\ aiReqs[s].pc = "done"
    /\ aiReqs'[s] # aiReqs[s]
    /\ aiReqs'[s].op = op

\* C14: on an adapter without a model predict, trainModel and
\* updateHyperparameters throw and saveModel returns false, in each case
\* before the library's predict, fit or save is invoked and with nothing of
\* the adapter changed; on an adapter with a model trainModel has compiled the
\* model by the time it invokes fit.
C14_EmptyAdapterCalls ==
    [][\A s \in Slots :
          /\ \A op \in {"predict", "trainModel", "updateHyperparameters", "saveModel"} :
                (CallStarts(s, op) /\ aiService.model = NoModel) =>
                   /\ aiReqs'[s].pc = "done"
                   /\ aiReqs'[s].result = IF op = "saveModel" THEN "false" ELSE "throw"
                   /\ aiService' = aiService
          /\ (CallStarts(s, "trainModel") /\ aiReqs'[s].pc = "fit") =>
                /\ aiService.model.live
                /\ aiService'.model.compiled
                /\ aiService'.model.optimizer # None]_vars

\* updateHyperparameters has thrown on an adapter that is as constructed
C14_Witness ==
    \E s \in Slots :
       /\ aiReqs[s].op = "updateHyperparameters" /\ aiReqs[s].result = "throw"
       /\ aiService = NewAIService

\* the path the models directory and a relative path are joined to
ResolvedPath(path) == [scheme |-> "file://", rest |-> MODELS_DIR \o path.rest]

\* C15: with a model loaded, saveModel with a path that starts with none of
\* file://, http://, https:// hands the path resolved against the models
\* directory, as a file:// path, to the library's save, and returns true
\* whenever that save succeeds.
C15_RelativePathResolved ==
    [][\A s \in Slots :
          /\ \A p \in SavePaths :
                (/\ CallStarts(s, "saveModel") /\ aiService.model.live
                 /\ p.scheme \notin {"file://", "http://", "https://"}
                 /\ CallSaveModel(s, p)) =>
                   /\ aiReqs'[s].pc = "save"
                   /\ aiReqs'[s].path = ResolvedPath(p)
          /\ CallSaveModelSave(s, TRUE) => aiReqs'[s].result = "true"]_vars

\* C16: with a model loaded, updateHyperparameters(patch) stores the shallow
\* merge of the stored hyperparameters and the patch: a key of the patch has
\* the patch's value, any other key keeps its value; applying the same patch
\* again stores the same; and the model is compiled again with the merge.
C16_HyperparametersMerge ==
    [][\A s \in Slots :
          (CallStarts(s, "updateHyperparameters") /\ aiService.model.live) =>
             \A patch \in HyperparameterObjects, ok \in BOOLEAN :
                CallUpdateHyperparameters(s, patch, ok) =>
                   LET old == OrEmpty(aiService.hyperparameters)
                       new == aiService'.hyperparameters
                   IN /\ ~new.null
                      /\ \A k \in DOMAIN patch :
                            new.keys[k] = IF patch[k] # Absent THEN patch[k] ELSE old[k]
                      /\ UpdateHyperparameters(aiService', patch, ok).svc.hyperparameters = new
                      /\ ok => /\ aiReqs'[s].result = "true"
                               /\ aiService'.model.compiled
                               /\ aiService'.model.optimizer =
                                     IF new.keys.optimizer # Absent
                                     THEN new.keys.optimizer ELSE "adam"]_vars

\* updateHyperparameters has returned with both keys stored and the model
\* compiled with the stored optimizer
C16_Witness ==
    \E s \in Slots :
       /\ aiReqs[s].op = "updateHyperparameters" /\ aiReqs[s].result = "true"
       /\ aiService.hyperparameters.keys.optimizer = "rmsprop"
       /\ aiService.hyperparameters.keys.learningRate = "fast"
       /\ aiService.model.optimizer = "rmsprop"

(***************************************************************************)
(* Specification of initialize and train on two records                    *)
(***************************************************************************)
RaceNext ==
    \/ \E s \in Slots :
          InitializeModelCreate(s, "U1", "none")
             /\ UNCHANGED <<dsVars, authVars, predVars, httpVars>>
    \/ \E s \in Slots : InitializeModelSave(s) /\ UNCHANGED <<dsVars, authVars, predVars, httpVars>>
    \/ \E s \in Slots, i \in 1..MaxModels, e \in EpochChoices :
          TrainModelFindById(s, "U1", i, TRUE, e)
             /\ UNCHANGED <<dsVars, authVars, predVars, httpVars>>
    \/ \E s \in Slots :
          TrainModelAddTrainingData(s, TRUE) /\ UNCHANGED <<dsVars, authVars, predVars, httpVars>>
    \/ \E s \in Slots :
          TrainModelFit(s, TRUE) /\ UNCHANGED <<dsVars, authVars, predVars, httpVars>>
    \/ \E s \in Slots : TrainModelSave(s) /\ UNCHANGED <<dsVars, authVars, predVars, httpVars>>

SpecRace == TrainInit /\ [][RaceNext]_vars

\* the trainModel request in slot s called the adapter while the live model
\* was the one built by the initializeModel request of another record, and
\* that model was built after the request had looked its own record up
RanOnOtherModel(s) ==
    /\ aiReqs[s].op = "trainModel"
    /\ aiReqs[s].liveAtCall # NoId
    /\ aiReqs[s].liveAtCall # aiReqs[s].id
    /\ aiReqs[s].liveAtCall # aiReqs[s].liveAtLookup

\* C20: a train request for record A whose adapter call ran against the live
\* model that an initialize for record B installed between A's Registry
\* lookup and A's adapter call goes through all the same: its save marks
\* record A trained, leaves every other record as it was, and answers 200.
C20_RacingTrainMarksOwnRecord ==
    [][\A s \in Slots :
          (RanOnOtherModel(s) /\ aiReqs[s].pc = "save" /\ aiReqs'[s].pc = "done") =>
             /\ aiReqs'[s].status = 200
             /\ aiModels'[aiReqs[s].id].status = "trained"
             /\ \A i \in 1..Len(aiModels) :
                   i # aiReqs[s].id => aiModels'[i] = aiModels[i]]_vars

\* such a train request has had model.fit return and is about to save
C20_Witness ==
    \E s \in Slots :
       /\ RanOnOtherModel(s) /\ aiReqs[s].pc = "save"
       /\ aiModels[aiReqs[s].id].status = "initialized"
       /\ aiService.installedFor = aiReqs[s].liveAtCall

====
